---- MODULE Spec2Model ----
(***************************************************************************)
(* A model of the xcomponent runtime (dist/xcomponent.frame.js):           *)
(*   - the post-robot listener table (drivers/listeners),                  *)
(*   - the post-robot request / ack / response bus (public/client,         *)
(*     drivers/receive, clean),                                            *)
(*   - the parent component controller (component/parent).                 *)
(* Each subsystem has its own specification; the variables of the other    *)
(* subsystems stay at their initial values in it.                          *)
(***************************************************************************)
EXTENDS Integers, Sequences, FiniteSets, TLC

(***************************************************************************)
(* Bounds of the model                                                     *)
(***************************************************************************)
\* number of addRequestListener calls explored (the READY listener included)
MaxListeners == 3
\* number of cancel() calls explored
MaxCancels == 1

(***************************************************************************)
(* Values                                                                  *)
(***************************************************************************)
WILDCARD == "*"
WINDOW_WILDCARD == "WINDOW_WILDCARD"
DOMAIN_REGEX == "__domain_regex__"
READY == "postrobot_ready"
INIT == "xcomponent_init"

Names == {READY, INIT}
Windows == {"W1", "W2"}
WinKeys == Windows \cup {WINDOW_WILDCARD}
OriginA == "https://a.example"
OriginB == "https://b.example"
Origins == {OriginA, OriginB}
\* regular expressions are written by their source text
RegexA == "/^https:\\/\\/a\\./"
RegexAny == "/^https:/"
Regexes == {RegexA, RegexAny}
Domains == Origins \cup {WILDCARD} \cup Regexes

isRegex(item) == item \in Regexes

\* String.prototype.match for the two regular expressions of the model
RegexTest(regex, origin) ==
    \/ regex = RegexA /\ origin = OriginA
    \/ regex = RegexAny /\ origin \in Origins

\* matchDomain(pattern, origin) throws a TypeError: a regex pattern is matched
\* against a null origin (origin.match of null)
matchDomainThrows(pattern, origin) == isRegex(pattern) /\ origin = "null"

\* cross-domain-utils matchDomain(pattern, origin) for string and regex patterns
matchDomain(pattern, origin) ==
    IF isRegex(pattern)
    THEN IF isRegex(origin) THEN pattern = origin
         ELSE RegexTest(pattern, origin)
    ELSE IF isRegex(origin) THEN FALSE
    ELSE pattern = WILDCARD \/ origin = pattern

VARIABLES
    \* listener table
    requestListeners,   \* name -> [has, map]: the weak map window -> winListeners object
    winObjs,            \* heap of winListeners objects: literal keys, regex list
    listeners,          \* registrations made so far (listener options + cancel closure)
    cancels,            \* number of cancel() calls made
    lastOp,             \* the last listener-table operation and its outcome
    tableBefore,        \* the table as it was just before the last registration
    \* request / ack / response bus
    now,                \* the clock, in ms
    reqs,               \* the request() calls made so far, by hash
    responseListeners,  \* hashes that have an entry in the response table
    requestPromises,    \* weak map window -> array of request promises (0: none)
    arrays,             \* heap of the requestPromises arrays
    readyPromises,      \* weak map window -> ready promise (0: none)
    readyObjs,          \* heap of the ready promises
    loaded,             \* the peer's runtime has loaded (and has sent READY)
    closed,             \* the peer window is closed
    toPeer,             \* REQUEST frames posted to a peer, not yet handled by it
    toMe,               \* frames posted to this window, in posting order
    receivedMessages,   \* ids of the frames this window has received
    peerPending,        \* requests whose handler in the peer has not yet returned
    peer,               \* the window the requests of this behaviour go to
    options,            \* the domain and timeout options of these requests
    \* parent controller
    parent,             \* the ParentComponent instance: its fields, props and timers
    \* parent instance: cleanup registry and life cycle
    inst,               \* the instance: its cleanup tasks, window, promise and listeners
    \* props sent to the child
    sent,               \* the component's prop definitions, this.props, what the child was given
    \* controllers of a window
    page,               \* the components created in a window and the controllers bound in it
    \* method handles
    rpc,                \* the method table of the sender, the stubs of the peer, the call in flight
    \* responder of requests
    responder,          \* the dedup list, the handlers called and the frames sent back by this window
    \* child window name
    codec,              \* the name built for a child window, what the child decodes from it, the name built again
    \* render pipeline
    pipe,               \* the tasks of one render(), its timer and watchers, and the callbacks made
    \* child controller
    xchild,              \* the child controller: what it knows of its context, its init request, its watcher of the parent window
    \* waits for a window to be ready
    waits,              \* the ready promises of the windows, the calls of onWindowReady and the clock
    \* prop values of a parent
    held,               \* this.props of a parent instance by value, and the last setProps made on it
    \* messages to a parent controller
    guard,              \* the listeners of one parent controller, its onInit, and the last message dispatched
    \* method handles per window
    handles,            \* the method tables of the destination windows and the last METHOD request received
    \* Render delegation: the DELEGATE listener of a component
    delegation,         \* the descriptor's domain settings, the delegates it made, the last DELEGATE request
    \* Creation of a parent controller: validate and validateParentDomain
    creation,           \* the origin of the page and the outcome of every new ParentComponent on it
    \* Errors of a parent instance: error(err)
    errs,               \* the error objects given to error(err) of the instance and what became of each
    \* Prop updates of a parent instance: updateProps and onInit
    updating            \* the props of an instance, its onInit promise and the calls of the child's updateProps

listenerVars == <<requestListeners, winObjs, listeners, cancels, lastOp, tableBefore>>

busVars == <<now, reqs, responseListeners, requestPromises, arrays, readyPromises,
             readyObjs, loaded, closed, toPeer, toMe, receivedMessages, peerPending,
             peer, options>>

parentVars == <<parent>>

instVars == <<inst>>

sentVars == <<sent>>

pageVars == <<page>>

rpcVars == <<rpc>>

responderVars == <<responder>>

codecVars == <<codec>>

pipeVars == <<pipe>>

childVars == <<xchild>>

waitVars == <<waits>>

heldVars == <<held>>

guardVars == <<guard>>

handleVars == <<handles>>

delegationVars == <<delegation>>

creationVars == <<creation>>

errVars == <<errs>>

updatingVars == <<updating>>

vars == <<listenerVars, busVars, parentVars, instVars, sentVars, pageVars, rpcVars, responderVars, codecVars, pipeVars, childVars, waitVars, heldVars, guardVars, handleVars, delegationVars, creationVars, errVars, updatingVars>>

\* what the actions of one part of the program leave alone
exceptListeners == <<busVars, parentVars, instVars, sentVars, pageVars, rpcVars, responderVars, codecVars, pipeVars, childVars, waitVars, heldVars, guardVars, handleVars, delegationVars, creationVars, errVars, updatingVars>>
exceptBus == <<listenerVars, parentVars, instVars, sentVars, pageVars, rpcVars, responderVars, codecVars, pipeVars, childVars, waitVars, heldVars, guardVars, handleVars, delegationVars, creationVars, errVars, updatingVars>>
exceptParent == <<listenerVars, busVars, instVars, sentVars, pageVars, rpcVars, responderVars, codecVars, pipeVars, childVars, waitVars, heldVars, guardVars, handleVars, delegationVars, creationVars, errVars, updatingVars>>
exceptInst == <<listenerVars, busVars, parentVars, sentVars, pageVars, rpcVars, responderVars, codecVars, pipeVars, childVars, waitVars, heldVars, guardVars, handleVars, delegationVars, creationVars, errVars, updatingVars>>
exceptSent == <<listenerVars, busVars, parentVars, instVars, pageVars, rpcVars, responderVars, codecVars, pipeVars, childVars, waitVars, heldVars, guardVars, handleVars, delegationVars, creationVars, errVars, updatingVars>>
exceptPage == <<listenerVars, busVars, parentVars, instVars, sentVars, rpcVars, responderVars, codecVars, pipeVars, childVars, waitVars, heldVars, guardVars, handleVars, delegationVars, creationVars, errVars, updatingVars>>
exceptRpc == <<listenerVars, busVars, parentVars, instVars, sentVars, pageVars, responderVars, codecVars, pipeVars, childVars, waitVars, heldVars, guardVars, handleVars, delegationVars, creationVars, errVars, updatingVars>>
exceptResponder == <<listenerVars, busVars, parentVars, instVars, sentVars, pageVars, rpcVars, codecVars, pipeVars, childVars, waitVars, heldVars, guardVars, handleVars, delegationVars, creationVars, errVars, updatingVars>>
exceptCodec == <<listenerVars, busVars, parentVars, instVars, sentVars, pageVars, rpcVars, responderVars, pipeVars, childVars, waitVars, heldVars, guardVars, handleVars, delegationVars, creationVars, errVars, updatingVars>>
exceptPipe == <<listenerVars, busVars, parentVars, instVars, sentVars, pageVars, rpcVars, responderVars, codecVars, childVars, waitVars, heldVars, guardVars, handleVars, delegationVars, creationVars, errVars, updatingVars>>
exceptChild == <<listenerVars, busVars, parentVars, instVars, sentVars, pageVars, rpcVars, responderVars, codecVars, pipeVars, waitVars, heldVars, guardVars, handleVars, delegationVars, creationVars, errVars, updatingVars>>
exceptWaits == <<listenerVars, busVars, parentVars, instVars, sentVars, pageVars, rpcVars, responderVars, codecVars, pipeVars, childVars, heldVars, guardVars, handleVars, delegationVars, creationVars, errVars, updatingVars>>
exceptHeld == <<listenerVars, busVars, parentVars, instVars, sentVars, pageVars, rpcVars, responderVars, codecVars, pipeVars, childVars, waitVars, guardVars, handleVars, delegationVars, creationVars, errVars, updatingVars>>
exceptGuard == <<listenerVars, busVars, parentVars, instVars, sentVars, pageVars, rpcVars, responderVars, codecVars, pipeVars, childVars, waitVars, heldVars, handleVars, delegationVars, creationVars, errVars, updatingVars>>
exceptHandles == <<listenerVars, busVars, parentVars, instVars, sentVars, pageVars, rpcVars, responderVars, codecVars, pipeVars, childVars, waitVars, heldVars, guardVars, delegationVars, creationVars, errVars, updatingVars>>
exceptDelegation == <<listenerVars, busVars, parentVars, instVars, sentVars, pageVars, rpcVars, responderVars, codecVars, pipeVars, childVars, waitVars, heldVars, guardVars, handleVars, creationVars, errVars, updatingVars>>
exceptCreation == <<listenerVars, busVars, parentVars, instVars, sentVars, pageVars, rpcVars, responderVars, codecVars, pipeVars, childVars, waitVars, heldVars, guardVars, handleVars, delegationVars, errVars, updatingVars>>
exceptErrs == <<listenerVars, busVars, parentVars, instVars, sentVars, pageVars, rpcVars, responderVars, codecVars, pipeVars, childVars, waitVars, heldVars, guardVars, handleVars, delegationVars, creationVars, updatingVars>>
exceptInstErrs == <<listenerVars, busVars, parentVars, sentVars, pageVars, rpcVars, responderVars, codecVars, pipeVars, childVars, waitVars, heldVars, guardVars, handleVars, delegationVars, creationVars, updatingVars>>
exceptUpdating == <<listenerVars, busVars, parentVars, instVars, sentVars, pageVars, rpcVars, responderVars, codecVars, pipeVars, childVars, waitVars, heldVars, guardVars, handleVars, delegationVars, creationVars, errVars>>

ListenerIds == 1..(MaxListeners + 1)

EmptyObj == [lit |-> [k \in Domains |-> 0], hasRegexKey |-> FALSE, regex |-> <<>>]
NoMap == [w \in WinKeys |-> 0]

\* winListeners object registered for (name, winKey), 0 when there is none
WinListenersOf(name, winKey) ==
    IF requestListeners[name].has THEN requestListeners[name].map[winKey] ELSE 0

\* first regex listener of a list whose regex matches the domain (0: none,
\* -1: the match throws)
RECURSIVE FirstRegexMatch(_, _)
FirstRegexMatch(regexList, domain) ==
    IF regexList = <<>> THEN 0
    ELSE IF matchDomainThrows(listeners[Head(regexList)].domain, domain) THEN -1
    ELSE IF matchDomain(listeners[Head(regexList)].domain, domain) THEN Head(regexList)
    ELSE FirstRegexMatch(Tail(regexList), domain)

\* the lookup of one window qualifier: the domain, then the wildcard, then the
\* regex list (0: nothing found under this qualifier)
LookupWin(obj, domain) ==
    LET o == winObjs[obj]
    IN IF domain # "null" /\ o.lit[domain] # 0 THEN o.lit[domain]
       ELSE IF o.lit[WILDCARD] # 0 THEN o.lit[WILDCARD]
       ELSE IF o.hasRegexKey THEN FirstRegexMatch(o.regex, domain)
       ELSE 0

\* a lookup that searches the wildcard-window listeners before those of the
\* window
getRequestListener_WildcardFirst(name, win, domain) ==
    LET w == IF win = WILDCARD THEN "null" ELSE win
        d == IF domain = WILDCARD THEN "null" ELSE domain
        first == WinListenersOf(name, WINDOW_WILDCARD)
        second == IF w = "null" THEN 0 ELSE WinListenersOf(name, w)
        r1 == IF first = 0 THEN 0 ELSE LookupWin(first, d)
    IN IF r1 # 0 THEN r1
       ELSE IF second = 0 THEN 0 ELSE LookupWin(second, d)

\* getRequestListener({name, win, domain}): 0 when no listener is found, -1
\* when the lookup throws
getRequestListener(name, win, domain) ==
    LET w == IF win = WILDCARD THEN "null" ELSE win
        d == IF domain = WILDCARD THEN "null" ELSE domain
        first == IF w = "null" THEN 0 ELSE WinListenersOf(name, w)
        second == WinListenersOf(name, WINDOW_WILDCARD)
        r1 == IF first = 0 THEN 0 ELSE LookupWin(first, d)
    IN IF r1 # 0 THEN r1
       ELSE IF second = 0 THEN 0 ELSE LookupWin(second, d)

\* the table seen as a mapping (name, window key) -> winListeners content
TableOf(rl, objs) ==
    [n \in Names |-> [w \in WinKeys |->
        IF rl[n].has /\ rl[n].map[w] # 0
        THEN [present |-> TRUE, obj |-> objs[rl[n].map[w]]]
        ELSE [present |-> FALSE, obj |-> EmptyObj]]]

Table == TableOf(requestListeners, winObjs)

NoOp == [op |-> "none", id |-> 0, name |-> "", win |-> "", domain |-> "",
         handler |-> 0]

\* addRequestListener({name, win, domain}, listener) for a single window and a
\* single domain
addRequestListener(name, win, domain) ==
    LET id == Len(listeners) + 1
        existingListener == getRequestListener(name, win, domain)
        winKey == IF win = WILDCARD THEN WINDOW_WILDCARD ELSE win
        oldObj == WinListenersOf(name, winKey)
        obj == IF oldObj = 0 THEN id ELSE oldObj
        base == IF oldObj = 0 THEN EmptyObj ELSE winObjs[oldObj]
        withLit == [base EXCEPT !.lit[domain] = id]
        withRegex == IF isRegex(domain)
                     THEN [withLit EXCEPT !.hasRegexKey = TRUE,
                                          !.regex = Append(base.regex, id)]
                     ELSE withLit
    IN /\ id <= MaxListeners
       /\ IF existingListener # 0
          THEN /\ lastOp' = [NoOp EXCEPT !.op = "addThrows", !.name = name, !.win = winKey,
                                        !.domain = domain, !.handler = existingListener]
               /\ UNCHANGED <<requestListeners, winObjs, listeners, tableBefore>>
          ELSE /\ requestListeners' =
                    [requestListeners EXCEPT ![name] =
                        [has |-> TRUE,
                         map |-> [(IF @.has THEN @.map ELSE NoMap) EXCEPT ![winKey] = obj]]]
               /\ winObjs' = [winObjs EXCEPT ![obj] = withRegex]
               /\ listeners' = Append(listeners,
                    [name |-> name, win |-> winKey, domain |-> domain, obj |-> obj])
               /\ tableBefore' = Table
               /\ lastOp' = [NoOp EXCEPT !.op = "add", !.id = id]
       /\ UNCHANGED cancels

\* Array.prototype.splice(list.indexOf(item, 1)) on a 1-based sequence
SpliceIndexOfFrom1(list, item) ==
    LET hits == {p \in 2..Len(list) : list[p] = item}
    IN IF hits # {}
       THEN SubSeq(list, 1, (CHOOSE p \in hits : \A q \in hits : p <= q) - 1)
       ELSE IF list = <<>> THEN list
       ELSE SubSeq(list, 1, Len(list) - 1)

\* Object.keys(winListeners).length
KeyCount(o) ==
    Cardinality({k \in Domains : o.lit[k] # 0}) + (IF o.hasRegexKey THEN 1 ELSE 0)

\* the cancel() closure returned by addRequestListener for registration id
CancelListener(id) ==
    LET l == listeners[id]
        o1 == [winObjs[l.obj] EXCEPT !.lit[l.domain] = 0]
        o2 == IF isRegex(l.domain)
              THEN [o1 EXCEPT !.regex = SpliceIndexOfFrom1(o1.regex, id)]
              ELSE o1
    IN /\ cancels < MaxCancels
       /\ cancels' = cancels + 1
       /\ winObjs' = [winObjs EXCEPT ![l.obj] = o2]
       /\ requestListeners' =
            IF KeyCount(o1) = 0
            THEN [requestListeners EXCEPT ![l.name].map[l.win] = 0]
            ELSE requestListeners
       /\ lastOp' = [NoOp EXCEPT !.op = IF lastOp.op = "add" /\ lastOp.id = id
                                         THEN "addCancel" ELSE "cancel",
                                 !.id = id]
       /\ UNCHANGED <<listeners, tableBefore>>

\* RECEIVE_MESSAGE_TYPES[REQUEST](source, origin, message): the lookup of the
\* listener and the call of its handler
ReceiveRequest(name, source, origin) ==
    /\ lastOp' = [NoOp EXCEPT !.op = "request", !.name = name, !.win = source,
                              !.domain = origin,
                              !.handler = getRequestListener(name, source, origin)]
    /\ UNCHANGED <<requestListeners, winObjs, listeners, cancels, tableBefore>>

(***************************************************************************)
(* Request / ack / response bus                                            *)
(***************************************************************************)
\* number of request() calls explored
MaxRequests == 1
\* number of request() calls explored with requests side by side
PairRequests == 2
\* number of third windows that post frames to this window
MaxForged == 1
\* the clock stops here
MaxClock == 5000
\* calls of the public interface and steps of the peers happen up to this time
MaxEventTime == 0
\* a timeout option shorter than the ack timeout
ShortTimeout == 200

ACK_TIMEOUT == 1000
RES_TIMEOUT == 10000
\* default timeout of onWindowReady
READY_TIMEOUT == 5000
\* period of the safeInterval of request()
IntervalTime == 100
\* amount taken from ackTimeout and resTimeout on each run of the interval
TickDecrement == 100
\* the timeout option 1/0; Infinity - 100 is Infinity
Infinity == 1000000000

\* this window
Me == "self"
\* the windows messages are sent to: a frame of this window and its opener
Peers == {"child", "opener"}
\* a window that is neither
Other == "other"
PeerOrigin(w) == IF w = "child" THEN OriginA ELSE OriginB

\* isAncestor(parent, child) of cross-domain-utils, for the windows of the model
isAncestor(ancestor, child) == ancestor = Me /\ child = "child"

\* isWindowClosed(win)
isWindowClosed(win) == IF win \in Peers THEN closed[win] ELSE FALSE

\* the finite timeout options: absent (0), in which case request() takes
\* CONFIG.RES_TIMEOUT, and a short one
TimeoutOptions == {0, ShortTimeout}
\* options.domain: any origin, or one origin
DomainOptions == {WILDCARD, OriginA}
\* a behaviour follows the requests to one window, all made with the same
\* domain and timeout options; they are fixed by its first steps
NoPeer == "none"
NoOptions == [domain |-> "", timeout |-> 0]

MaxIds == IF MaxRequests > PairRequests THEN MaxRequests ELSE PairRequests
RequestIds == 1..MaxIds
resTimeoutOf(timeout) == IF timeout # 0 THEN timeout ELSE RES_TIMEOUT

Dec(t) == IF t = Infinity THEN t ELSE t - TickDecrement

ReadyIds == 1..(MaxIds + 1)
\* the ready promise the READY handler creates when there is none
ReadyByHandler == MaxIds + 1

NoReady == [state |-> "none", deadline |-> 0, timer |-> FALSE]

\* a request() call: its options, the variables of its closure and its promise
NewRequest(w, d, t, ff, arr) ==
    [win |-> w, domain |-> d, timeout |-> t, fireAndForget |-> ff,
     requestPromises |-> arr, ready |-> 0, stage |-> "created",
     state |-> "pending", ack |-> FALSE, hasResult |-> FALSE,
     ackTimeout |-> 0, resTimeout |-> 0, interval |-> "none", nextTick |-> 0,
     sentAt |-> now, acks |-> 0, handled |-> FALSE]

\* ZalgoPromise: settling a settled promise does nothing
reject(rec) == IF rec.state = "pending" THEN [rec EXCEPT !.state = "rejected"] ELSE rec
resolve(rec) == IF rec.state = "pending" THEN [rec EXCEPT !.state = "resolved"] ELSE rec

\* sendMessage(win, message, domain) fails: the window is closed
sendMessageThrows(win) == isWindowClosed(win)

\* win.postMessage(message, domain): the browser delivers the frame only to a
\* window whose origin is the target origin
Posted(rec) == ~sendMessageThrows(rec.win) /\ matchDomain(rec.domain, PeerOrigin(rec.win))

\* the executor of the promise request() builds once the window is ready. A
\* promise both rejected and resolved inside its executor ends resolved.
startRequest(rec) ==
    LET r1 == [rec EXCEPT !.stage = "started"]
        r2 == IF sendMessageThrows(rec.win) THEN reject(r1) ELSE r1
    IN IF rec.fireAndForget THEN resolve(r1)
       ELSE [r2 EXCEPT !.ackTimeout = ACK_TIMEOUT,
                       !.resTimeout = resTimeoutOf(rec.timeout),
                       !.interval = "running",
                       !.nextTick = now + IntervalTime]

\* requests whose promise the step old -> new rejects: requestPromise.catch
\* deletes their response listener
NewlyRejected(old, new) ==
    {r \in 1..Len(new) : /\ new[r].state = "rejected"
                         /\ (r > Len(old) \/ old[r].state = "pending")}

\* requests whose executor runs in the step old -> new
NewlyStarted(old, new) ==
    {r \in 1..Len(new) : /\ new[r].stage = "started"
                         /\ (r > Len(old) \/ old[r].stage # "started")}

\* request(options), options = {window, domain, timeout, fireAndForget}
Send(w, d, t, ff) ==
    LET r == Len(reqs) + 1
        arr == IF requestPromises[w] = 0 THEN r ELSE requestPromises[w]
        rec == NewRequest(w, d, t, ff, arr)
        p == readyPromises[w]
        create == isAncestor(Me, w) /\ p = 0
        q == IF create THEN r ELSE p
        new == IF ~isAncestor(Me, w) THEN startRequest(rec)
               ELSE IF create \/ readyObjs[p].state = "pending"
                    THEN [rec EXCEPT !.ready = q, !.stage = "waitReady"]
               ELSE IF readyObjs[p].state = "resolved" THEN startRequest(rec)
               ELSE reject(rec)
        newReqs == Append(reqs, new)
    IN /\ now <= MaxEventTime
       /\ peer \in {NoPeer, w}
       /\ options \in {NoOptions, [domain |-> d, timeout |-> t]}
       /\ ~isWindowClosed(w)
       /\ peer' = w
       /\ options' = [domain |-> d, timeout |-> t]
       /\ reqs' = newReqs
       /\ requestPromises' = [requestPromises EXCEPT ![w] = arr]
       /\ arrays' = [arrays EXCEPT ![arr] = Append(@, r)]
       /\ readyPromises' = IF create THEN [readyPromises EXCEPT ![w] = r] ELSE readyPromises
       /\ readyObjs' = IF create
                       THEN [readyObjs EXCEPT ![r] = [state |-> "pending",
                                                      deadline |-> now + READY_TIMEOUT,
                                                      timer |-> TRUE]]
                       ELSE readyObjs
       /\ responseListeners' = (responseListeners \cup NewlyStarted(reqs, newReqs))
                                  \ NewlyRejected(reqs, newReqs)
       /\ toPeer' = toPeer \cup {x \in NewlyStarted(reqs, newReqs) : Posted(newReqs[x])}
       /\ UNCHANGED <<now, loaded, closed, toMe, receivedMessages, peerPending>>

\* the peer loads, its READY request arrives and the READY handler of
\* initOnReady runs
ReceiveReady(w) ==
    LET p == readyPromises[w]
        resolves == p # 0 /\ readyObjs[p].state = "pending"
        newReqs == [r \in 1..Len(reqs) |->
                        IF resolves /\ reqs[r].stage = "waitReady" /\ reqs[r].ready = p
                        THEN startRequest(reqs[r]) ELSE reqs[r]]
    IN /\ peer \in {NoPeer, w}
       /\ peer' = w
       /\ isAncestor(Me, w)
       /\ ~loaded[w]
       /\ ~isWindowClosed(w)
       /\ now <= MaxEventTime
       /\ loaded' = [loaded EXCEPT ![w] = TRUE]
       /\ readyPromises' = IF p = 0 THEN [readyPromises EXCEPT ![w] = ReadyByHandler]
                           ELSE readyPromises
       /\ readyObjs' = IF p = 0
                       THEN [readyObjs EXCEPT ![ReadyByHandler] =
                                [state |-> "resolved", deadline |-> 0, timer |-> FALSE]]
                       ELSE IF resolves THEN [readyObjs EXCEPT ![p].state = "resolved"]
                       ELSE readyObjs
       /\ reqs' = newReqs
       /\ responseListeners' = (responseListeners \cup NewlyStarted(reqs, newReqs))
                                  \ NewlyRejected(reqs, newReqs)
       /\ toPeer' = toPeer \cup {x \in NewlyStarted(reqs, newReqs) : Posted(newReqs[x])}
       /\ UNCHANGED <<now, requestPromises, arrays, closed, toMe, receivedMessages,
                      peerPending, options>>

\* the timer of onWindowReady fires
ReadyTimeout(p) ==
    LET rejects == readyObjs[p].state = "pending"
        newReqs == [r \in 1..Len(reqs) |->
                        IF rejects /\ reqs[r].stage = "waitReady" /\ reqs[r].ready = p
                        THEN reject(reqs[r]) ELSE reqs[r]]
    IN /\ readyObjs[p].timer
       /\ readyObjs[p].deadline <= now
       /\ readyObjs' = [readyObjs EXCEPT ![p].timer = FALSE,
                                         ![p].state = IF rejects THEN "rejected" ELSE @]
       /\ reqs' = newReqs
       /\ responseListeners' = responseListeners \ NewlyRejected(reqs, newReqs)
       /\ UNCHANGED <<peer, options>>
       /\ UNCHANGED <<now, requestPromises, arrays, readyPromises, loaded, closed, toPeer,
                      toMe, receivedMessages, peerPending>>

\* one run of the function request() gives to safeInterval
tick(rec) ==
    LET r0 == [rec EXCEPT !.nextTick = @ + IntervalTime]
        cancelled == [r0 EXCEPT !.interval = "cancelled"]
        r1 == [r0 EXCEPT !.ackTimeout = Dec(@), !.resTimeout = Dec(@)]
        cancelled1 == [r1 EXCEPT !.interval = "cancelled"]
    IN IF rec.ack /\ rec.hasResult THEN cancelled
       ELSE IF isWindowClosed(rec.win) THEN reject(cancelled)
       ELSE IF r1.ackTimeout <= 0 /\ ~r1.ack THEN reject(cancelled1)
       ELSE IF r1.resTimeout <= 0 /\ ~r1.hasResult THEN reject(cancelled1)
       ELSE r1

IntervalTick(r) ==
    LET newReqs == [reqs EXCEPT ![r] = tick(@)]
    IN /\ reqs[r].interval = "running"
       /\ reqs[r].nextTick <= now
       /\ reqs' = newReqs
       /\ responseListeners' = responseListeners \ NewlyRejected(reqs, newReqs)
       /\ UNCHANGED <<peer, options>>
       /\ UNCHANGED <<now, requestPromises, arrays, readyPromises, readyObjs, loaded,
                      closed, toPeer, toMe, receivedMessages, peerPending>>

\* a run of the interval that only counts down
idle(rec) == rec.interval = "running" /\ tick(rec).interval = "running"

\* the time of the first run of the interval that does more than count down
\* (a time after MaxClock when there is none up to MaxClock)
RECURSIVE EffectiveAt(_)
EffectiveAt(rec) ==
    IF rec.nextTick > MaxClock \/ ~idle(rec) THEN rec.nextTick
    ELSE EffectiveAt(tick(rec))

\* the runs of the interval before time t, all of which only count down
RECURSIVE FastForward(_, _)
FastForward(rec, t) ==
    IF rec.interval = "running" /\ rec.nextTick < t THEN FastForward(tick(rec), t)
    ELSE rec

\* the times at which a timer is due and does more than count down
Due ==
    {EffectiveAt(reqs[r]) : r \in {x \in 1..Len(reqs) : reqs[x].interval = "running"}}
        \cup {readyObjs[p].deadline : p \in {x \in ReadyIds : readyObjs[x].timer}}

\* time passes until the next such timer is due; the intervals count down
\* meanwhile. The frames already posted to this window are received first.
AdvanceTime ==
    /\ Due # {}
    /\ toMe = <<>>
    /\ \A r \in 1..Len(reqs) : reqs[r].interval = "running" => reqs[r].nextTick > now
    /\ \A p \in ReadyIds : readyObjs[p].timer => readyObjs[p].deadline > now
    /\ \E t \in Due : /\ \A u \in Due : t <= u
                      /\ t <= MaxClock
                      /\ now' = t
                      /\ reqs' = [r \in 1..Len(reqs) |-> FastForward(reqs[r], t)]
    /\ UNCHANGED <<peer, options>>
    /\ UNCHANGED <<responseListeners, requestPromises, arrays, readyPromises,
                   readyObjs, loaded, closed, toPeer, toMe, receivedMessages,
                   peerPending>>

Frame(type, hash, source, origin, ack, n) ==
    [type |-> type, hash |-> hash, source |-> source, origin |-> origin, ack |-> ack,
     id |-> <<type, hash, n>>]

\* handlers that take a frame of any origin
originMatches_Any(rec, origin) == TRUE

\* the origin check of the ACK and RESPONSE handlers
originMatches(rec, origin) == matchDomain(rec.domain, origin)

\* responseListener.respond(err, result)
respond(rec, ack) ==
    IF ack = "error" THEN reject(rec)
    ELSE resolve([rec EXCEPT !.hasResult = TRUE])

\* RECEIVE_MESSAGE_TYPES[RESPONSE] once the response listener is found
receiveResponse(f) ==
    LET h == f.hash
        newReqs == [reqs EXCEPT ![h] = respond(@, f.ack)]
        arr == reqs[h].requestPromises
    IN IF ~originMatches(reqs[h], f.origin)
       THEN UNCHANGED <<reqs, responseListeners, arrays>>
       ELSE /\ reqs' = newReqs
            /\ responseListeners' = (responseListeners \ {h}) \ NewlyRejected(reqs, newReqs)
            /\ arrays' = IF f.ack = "error" THEN arrays
                         ELSE [arrays EXCEPT ![arr] = SpliceIndexOfFrom1(@, h)]

\* RECEIVE_MESSAGE_TYPES[ACK] once the response listener is found
receiveAck(f, rs) ==
    /\ reqs' = [rs EXCEPT ![f.hash].ack =
                    IF originMatches(rs[f.hash], f.origin) THEN TRUE ELSE @]
    /\ UNCHANGED <<responseListeners, arrays>>

\* receiveMessage(event) for the frame f. The ACK frames of the peer that
\* reach a handler are counted in acks.
receiveMessage(f) ==
    LET counted == IF f.type = "ack" /\ f.source = reqs[f.hash].win
                   THEN [reqs EXCEPT ![f.hash].acks = @ + 1] ELSE reqs
    IN IF f.id \in receivedMessages
       THEN UNCHANGED <<reqs, responseListeners, arrays, receivedMessages>>
       ELSE /\ receivedMessages' = receivedMessages \cup {f.id}
            /\ IF isWindowClosed(f.source)
               THEN UNCHANGED <<reqs, responseListeners, arrays>>
               ELSE IF f.hash \notin responseListeners
                    THEN /\ reqs' = counted
                         /\ UNCHANGED <<responseListeners, arrays>>
                    ELSE IF f.type = "ack" THEN receiveAck(f, counted)
                    ELSE receiveResponse(f)

\* the frame at the head of the queue is received
ReceiveMessage ==
    /\ toMe # <<>>
    /\ toMe' = Tail(toMe)
    /\ receiveMessage(Head(toMe))
    /\ UNCHANGED <<now, requestPromises, readyPromises, readyObjs, loaded, closed,
                   toPeer, peerPending, peer, options>>

\* the origin of the n-th third window
ForgerOrigin(n) == IF n % 2 = 1 THEN OriginB ELSE OriginA

\* the message id the n-th third window uses
ForgedId(n) == <<"forged", 0, n>>

\* a frame that the n-th third window has posted is received: it carries the
\* hash of a request, the id the sender has chosen and the origin of the sender
ReceiveForged(type, r, ack, n) ==
    /\ now <= MaxEventTime
    /\ r \in 1..Len(reqs)
    /\ receiveMessage([Frame(type, r, Other, ForgerOrigin(n), ack, n)
                            EXCEPT !.id = ForgedId(n)])
    /\ UNCHANGED <<now, requestPromises, readyPromises, readyObjs, loaded, closed,
                   toPeer, toMe, peerPending, peer, options>>

\* a REQUEST handler that answers every message
peerResponds_Always(rec) == TRUE

\* respond(data) of the REQUEST handler sends nothing for a fireAndForget
\* message
peerResponds(rec) == ~rec.fireAndForget

\* the peer receives a REQUEST: RECEIVE_MESSAGE_TYPES[REQUEST] in the peer.
\* outcome: no listener is found, or the handler returns, throws, or returns a
\* promise that is still pending
PeerReceiveRequest(r, outcome) ==
    LET w == reqs[r].win
        ackFrame == Frame("ack", r, w, PeerOrigin(w), "", 0)
        resFrame == Frame("response", r, w, PeerOrigin(w),
                          IF outcome = "success" THEN "success" ELSE "error", 0)
    IN /\ r \in toPeer
       /\ loaded[w]
       /\ ~isWindowClosed(w)
       /\ now <= MaxEventTime
       /\ toPeer' = toPeer \ {r}
       /\ reqs' = [reqs EXCEPT ![r].handled = TRUE]
       /\ toMe' = IF ~peerResponds(reqs[r]) THEN toMe
                  ELSE IF outcome = "async" THEN Append(toMe, ackFrame)
                  ELSE toMe \o <<ackFrame, resFrame>>
       /\ peerPending' = IF outcome = "async" /\ peerResponds(reqs[r])
                         THEN peerPending \cup {r} ELSE peerPending
       /\ UNCHANGED <<peer, options>>
       /\ UNCHANGED <<now, responseListeners, requestPromises, arrays, readyPromises,
                      readyObjs, loaded, closed, receivedMessages>>

\* the promise returned by the handler in the peer settles
PeerRespond(r, ack) ==
    LET w == reqs[r].win
    IN /\ r \in peerPending
       /\ ~isWindowClosed(w)
       /\ now <= MaxEventTime
       /\ peerPending' = peerPending \ {r}
       /\ toMe' = Append(toMe, Frame("response", r, w, PeerOrigin(w), ack, 0))
       /\ UNCHANGED <<peer, options>>
       /\ UNCHANGED <<now, reqs, responseListeners, requestPromises, arrays, readyPromises,
                      readyObjs, loaded, closed, toPeer, receivedMessages>>

\* the peer window closes
PeerClose(w) ==
    /\ ~closed[w]
    /\ peer \in {NoPeer, w}
    /\ peer' = w
    /\ now <= MaxEventTime
    /\ closed' = [closed EXCEPT ![w] = TRUE]
    /\ UNCHANGED options
    /\ UNCHANGED <<now, reqs, responseListeners, requestPromises, arrays, readyPromises,
                   readyObjs, loaded, toPeer, toMe, receivedMessages, peerPending>>

\* cleanUpWindow(win)
CleanUpWindow(w) ==
    LET arr == requestPromises[w]
        listed == IF arr = 0 THEN {} ELSE {arrays[arr][i] : i \in 1..Len(arrays[arr])}
        newReqs == [r \in 1..Len(reqs) |-> IF r \in listed THEN reject(reqs[r]) ELSE reqs[r]]
    IN /\ peer \in {NoPeer, w}
       /\ peer' = w
       /\ now <= MaxEventTime
       /\ reqs' = newReqs
       /\ responseListeners' = responseListeners \ NewlyRejected(reqs, newReqs)
       /\ requestPromises' = [requestPromises EXCEPT ![w] = 0]
       /\ readyPromises' = [readyPromises EXCEPT ![w] = 0]
       /\ UNCHANGED options
       /\ UNCHANGED <<now, arrays, readyObjs, loaded, closed, toPeer, toMe,
                      receivedMessages, peerPending>>

(***************************************************************************)
(* Parent controller                                                       *)
(***************************************************************************)
\* number of updateProps() calls explored
MaxUpdates == 2
\* number of INIT messages the child sends
MaxInits == 2

\* before new ParentComponent(component, context, options)
NoParent ==
    [stage |-> "none", timeoutProp |-> FALSE,
     onInit |-> "pending", replaced |-> FALSE,
     settled |-> "no", settledAfter |-> "nothing",
     inits |-> 0, answered |-> 0,
     listening |-> FALSE, closeWatch |-> "none", timer |-> "none", childOpen |-> FALSE,
     cleaned |-> FALSE, memoized |-> {},
     onClose |-> [user |-> FALSE, called |-> FALSE], onCloseCalls |-> 0, updates |-> 0]

\* normalizeProp for onClose: the caller's function, or noop, under a new
\* once() wrapper
normalizeOnClose(given) == [user |-> given, called |-> FALSE]

\* this.props.onClose(reason): the once() wrapper runs its method on its
\* first call only
callOnClose(p) ==
    IF p.onClose.called THEN p
    ELSE [p EXCEPT !.onClose.called = TRUE,
                   !.onCloseCalls = IF p.onClose.user THEN @ + 1 ELSE @]

\* how far the init round trip has come
Progress(p) ==
    IF p.answered > 0 THEN "answered" ELSE IF p.inits > 0 THEN "received" ELSE "nothing"

\* destroy(): clean.all() runs the tasks that are left, once. They cancel the
\* listeners, the close watcher and the timeout, destroy the window and put a
\* new pending promise in onInit
destroy(p) ==
    IF p.cleaned THEN p
    ELSE [p EXCEPT !.cleaned = TRUE,
                   !.listening = FALSE,
                   !.closeWatch = IF @ = "active" THEN "cancelled" ELSE @,
                   !.timer = IF @ = "running" THEN "cleared" ELSE @,
                   !.childOpen = FALSE,
                   !.onInit = "pending",
                   !.replaced = TRUE]

\* onInit.reject(err). The promise made by the constructor has the catch
\* handler that runs error(err), which destroys the instance
rejectInit(p) ==
    IF p.onInit # "pending" THEN p
    ELSE LET q == [p EXCEPT !.onInit = "rejected", !.settled = "rejected",
                            !.settledAfter = Progress(p)]
         IN IF p.replaced THEN q ELSE destroy(q)

\* onInit.resolve(this)
resolveInit(p) ==
    IF p.onInit # "pending" THEN p
    ELSE [p EXCEPT !.onInit = "resolved", !.settled = "resolved",
                   !.settledAfter = Progress(p)]

\* error(err)
error(p) == destroy(rejectInit(p))

\* a timeout that lets the render through
timeoutSettles_Resolve(p) == resolveInit(p)

\* the callback of the timer of runTimeout settles onInit
timeoutSettles(p) == rejectInit(p)

\* closeComponent(reason), memoized
closeComponent(p) ==
    IF "closeComponent" \in p.memoized THEN p
    ELSE LET p1 == [p EXCEPT !.memoized = @ \cup {"closeComponent"},
                             !.closeWatch = IF @ = "active" THEN "cancelled" ELSE @]
             p2 == callOnClose(p1)
         IN [p2 EXCEPT !.childOpen = FALSE]

\* closeContainer(reason), memoized
closeContainer(p) ==
    IF "closeContainer" \in p.memoized THEN p
    ELSE closeComponent(callOnClose([p EXCEPT !.memoized = @ \cup {"closeContainer"}]))

\* close(reason), memoized
close(p) ==
    IF "close" \in p.memoized THEN p
    ELSE LET p1 == callOnClose([p EXCEPT !.memoized = @ \cup {"close"}])
         IN destroy(closeContainer(closeComponent(p1)))

\* new ParentComponent(component, context, {props}) with an onClose prop
Construct(timeout) ==
    /\ parent.stage = "none"
    /\ parent' = [NoParent EXCEPT !.stage = "constructed", !.timeoutProp = timeout,
                                  !.onClose = normalizeOnClose(TRUE)]

\* render(element): the frame is opened, the listeners are registered, the
\* close watcher and the timeout are started. When a task of render fails,
\* tryInit rejects onInit
Render(ok) ==
    LET p1 == [parent EXCEPT !.stage = "rendered"]
    IN /\ parent.stage = "constructed"
       /\ ~parent.cleaned
       /\ parent' = IF ~ok THEN rejectInit(p1)
                    ELSE [p1 EXCEPT !.childOpen = TRUE, !.listening = TRUE,
                                    !.closeWatch = "active",
                                    !.timer = IF parent.timeoutProp THEN "running" ELSE "none"]

\* the INIT request of the child is handled: the handler resolves onInit and
\* clears the timeout, then its return value is posted as the response
ReceiveInit ==
    LET p1 == resolveInit([parent EXCEPT !.inits = @ + 1])
        p2 == [p1 EXCEPT !.timer = IF @ = "running" THEN "cleared" ELSE @]
    IN /\ parent.listening
       /\ parent.childOpen
       /\ parent.inits < MaxInits
       /\ parent' = [p2 EXCEPT !.answered = @ + 1]

\* the timer of runTimeout fires
LoadTimeout ==
    /\ parent.timer = "running"
    /\ parent' = timeoutSettles([parent EXCEPT !.timer = "fired"])

\* the frame of the child goes away
ChildCloses ==
    /\ parent.childOpen
    /\ parent' = [parent EXCEPT !.childOpen = FALSE]

\* the callback of watchForClose: the watcher finds the window closed
DetectClose ==
    /\ parent.closeWatch = "active"
    /\ ~parent.childOpen
    /\ parent' = destroy(callOnClose(rejectInit([parent EXCEPT !.closeWatch = "fired"])))

\* an ERROR message of the child, or a message from an unexpected domain
ChildError ==
    /\ parent.listening
    /\ parent.childOpen
    /\ parent' = error(parent)

\* close(), by the caller or for a CLOSE message of the child
Close ==
    /\ parent.stage # "none"
    /\ "close" \notin parent.memoized
    /\ parent' = close(parent)

CloseComponent ==
    /\ parent.stage # "none"
    /\ "closeComponent" \notin parent.memoized
    /\ parent' = closeComponent(parent)

CloseContainer ==
    /\ parent.stage # "none"
    /\ "closeContainer" \notin parent.memoized
    /\ parent' = closeContainer(parent)

\* updateProps(props): setProps normalizes every prop of the component anew,
\* given or not
UpdateProps(givesOnClose) ==
    /\ parent.stage # "none"
    /\ parent.updates < MaxUpdates
    /\ parent' = [parent EXCEPT !.onClose = normalizeOnClose(givesOnClose),
                                !.updates = @ + 1]

(***************************************************************************)
(* Parent instance: cleanup registry and life cycle                        *)
(***************************************************************************)
\* number of render() and renderTo() calls made on one instance
MaxRenders == 2
\* number of INIT messages a frame sends
MaxFrameInits == 1

\* the names under which listeners() returns a handler
ListenerNames == <<"init", "close", "resize", "hide", "show", "error">>

\* before new ParentComponent(component, context, options)
NoInst ==
    [exists |-> FALSE, timeoutProp |-> FALSE,
     tasks |-> <<>>, cleaned |-> FALSE, registered |-> 0, ran |-> <<>>, threw |-> FALSE,
     active |-> FALSE, onInit |-> "pending", replaced |-> FALSE, resolves |-> 0,
     window |-> 0, iframe |-> 0, frames |-> {}, container |-> 0,
     listening |-> {}, watching |-> {}, timeout |-> 0, timers |-> {},
     renders |-> <<>>, lateOpen |-> FALSE, memoized |-> {},
     childWindowName |-> 0, opened |-> FALSE, delegate |-> "none",
     inits |-> 0, destroys |-> 0, call |-> "none"]

\* the name a task is registered under, "" when register(method) is called
\* without a name
taskName(kind) ==
    CASE kind = "containerEvents" -> "destroyContainerEvents"
      [] kind = "containerTemplate" -> "destroyContainerTemplate"
      [] kind = "window" -> "destroyWindow"
      [] kind = "closeWindowListener" -> "destroyCloseWindowListener"
      [] kind = "unloadWindowListener" -> "destroyUnloadWindowListener"
      [] OTHER -> ""

\* a cancel() that leaves the listener in the table
cancelListener_Keep(s, l) == s

\* listener.cancel() and errorListener.cancel() of one name of listen()
cancelListener(s, l) == [s EXCEPT !.listening = @ \ {l}]

\* the method of a task. The task of driver.open passes this.window to
\* cleanUpWindow, whose weak map throws for a key that is not there
method(s, t) ==
    LET s1 == [s EXCEPT !.ran = Append(@, t.id)]
    IN CASE t.kind = "active" -> [s1 EXCEPT !.active = FALSE]
         [] t.kind = "onInit" -> [s1 EXCEPT !.onInit = "pending", !.replaced = TRUE]
         [] t.kind = "listener" -> cancelListener(s1, t.arg)
         [] t.kind = "containerEvents" -> s1
         [] t.kind = "containerTemplate" -> [s1 EXCEPT !.container = 0]
         [] t.kind = "window" ->
                IF s.window = 0 THEN [s1 EXCEPT !.threw = TRUE]
                ELSE [s1 EXCEPT !.window = 0, !.frames = @ \ {s.iframe}, !.iframe = 0]
         [] t.kind = "closeWindowListener" -> [s1 EXCEPT !.watching = @ \ {t.arg[1]}]
         [] t.kind = "unloadWindowListener" -> s1
         [] t.kind = "timeout" -> [s1 EXCEPT !.timers = @ \ {s.timeout}, !.timeout = 0]
         [] t.kind = "delegate" -> [s1 EXCEPT !.frames = @ \ {t.arg[1]}]
         [] t.kind = "window field" -> [s1 EXCEPT !.window = 0]

\* what follows a statement that threw is not executed
Then(s, Op(_)) == IF s.threw THEN s ELSE Op(s)

\* clean.register(name, method) and clean.register(method): once cleaned, it
\* calls its second argument at once, which is not there when the method was
\* passed alone
cleanRegister_Drop(s, kind, arg) ==
    LET t == [id |-> s.registered + 1, kind |-> kind, arg |-> arg, complete |-> FALSE]
    IN IF s.cleaned THEN s
       ELSE [s EXCEPT !.tasks = Append(@, t), !.registered = @ + 1]

cleanRegister(s, kind, arg) ==
    LET t == [id |-> s.registered + 1, kind |-> kind, arg |-> arg, complete |-> FALSE]
    IN IF s.cleaned
       THEN IF taskName(kind) = "" THEN [s EXCEPT !.threw = TRUE]
            ELSE method([s EXCEPT !.registered = @ + 1], t)
       ELSE [s EXCEPT !.tasks = Append(@, t), !.registered = @ + 1]

\* clean.set("window", item): nothing once cleaned, else the field and a task
\* that deletes it
cleanSet(s, item) ==
    IF s.cleaned THEN s
    ELSE cleanRegister([s EXCEPT !.window = item], "window field", <<item, "">>)

\* clean.hasTasks()
hasTasks(s) == \E i \in 1..Len(s.tasks) : ~s.tasks[i].complete

\* tasks.shift(), taking the tasks in the order of their registration
pop_Shift(tasks) == [task |-> Head(tasks), rest |-> Tail(tasks)]

\* tasks.pop()
pop(tasks) == [task |-> tasks[Len(tasks)], rest |-> SubSeq(tasks, 1, Len(tasks) - 1)]

\* the loop of clean.all(): for (;tasks.length;) results.push(tasks.pop().run())
RECURSIVE popAll(_)
popAll(s) ==
    IF s.tasks = <<>> \/ s.threw THEN s
    ELSE LET p == pop(s.tasks)
             s1 == [s EXCEPT !.tasks = p.rest]
         IN popAll(IF p.task.complete THEN s1 ELSE method(s1, p.task))

\* clean.all()
cleanAll(s) == popAll([s EXCEPT !.cleaned = TRUE])

\* the loop of clean.run(name), over the tasks in the order of registration
RECURSIVE runFrom(_, _, _)
runFrom(s, name, i) ==
    IF i > Len(s.tasks) \/ s.threw THEN s
    ELSE LET t == s.tasks[i]
         IN runFrom(IF taskName(t.kind) = name /\ ~t.complete
                    THEN method([s EXCEPT !.tasks[i].complete = TRUE], t)
                    ELSE s, name, i + 1)

\* clean.run(name)
cleanRun(s, name) == runFrom(s, name, 1)

\* destroy(): a promise, rejected when clean.all() throws
destroyInstance(s) ==
    LET s1 == [s EXCEPT !.destroys = IF @ < 2 THEN @ + 1 ELSE @]
    IN IF hasTasks(s1) THEN cleanAll(s1) ELSE s1

\* onInit.reject(err): the promise made by the constructor has the catch
\* handler that runs error(err), which calls destroy()
rejectOnInit(s) ==
    IF s.onInit # "pending" THEN s
    ELSE LET s1 == [s EXCEPT !.onInit = "rejected"]
         IN IF s.replaced THEN s1 ELSE [destroyInstance(s1) EXCEPT !.threw = FALSE]

\* onInit.resolve(this)
resolveOnInit(s) ==
    IF s.onInit # "pending" THEN s
    ELSE [s EXCEPT !.onInit = "resolved", !.resolves = @ + 1]

\* the catch of tryInit(method)
tryInit(s) == IF s.threw THEN rejectOnInit([s EXCEPT !.threw = FALSE]) ELSE s

\* the callback of onCloseWindow in watchForClose
detectClose(s, w) ==
    [destroyInstance(rejectOnInit([s EXCEPT !.watching = @ \ {w}])) EXCEPT !.threw = FALSE]

\* openContainer(element), with the container template the iframe driver needs
openContainer(s, w) ==
    LET s1 == cleanRegister([s EXCEPT !.container = w], "containerEvents", <<w, "">>)
    IN Then(s1, LAMBDA x : cleanRegister(x, "containerTemplate", <<w, "">>))

\* driver.open(element) of the iframe driver
open(s, w) ==
    cleanRegister([s EXCEPT !.window = w, !.iframe = w, !.frames = @ \cup {w},
                            !.lateOpen = @ \/ s.cleaned, !.opened = TRUE],
                  "window", <<w, "">>)

\* the part of renderTo(win, element) before render: a new childWindowName,
\* and delegate(win), which puts the overrides of the driver in place of the
\* methods of the instance and registers data.destroy when win answers
renderToDelegate(s, w, found) ==
    LET s1 == [s EXCEPT !.childWindowName = w]
        s2 == cleanRegister(s1, "delegate", <<w, "">>)
    IN IF ~found \/ s2.threw THEN [s1 EXCEPT !.delegate = "failed"]
       ELSE [s2 EXCEPT !.delegate = "found"]

\* this.openContainer(element): memoized, and the call of the delegate once
\* delegate(win) has put the override in its place
openContainerCall(s, w) ==
    IF s.delegate = "failed" THEN [s EXCEPT !.threw = TRUE]
    ELSE IF s.delegate = "found" \/ "openContainer" \in s.memoized THEN s
    ELSE openContainer([s EXCEPT !.memoized = @ \cup {"openContainer"}], w)

\* this.open(element): memoized, and once delegate(win) has put the override
\* in its place the open of the delegate followed by clean.set("window", the
\* frame that has the childWindowName). The delegate, destroyed with the
\* instance, keeps no frame it opens afterwards
openCall(s, w) ==
    IF s.delegate = "failed" THEN [s EXCEPT !.threw = TRUE]
    ELSE IF s.delegate = "found"
    THEN LET s1 == cleanSet([s EXCEPT !.frames = IF s.cleaned THEN @
                                                ELSE @ \cup {s.childWindowName}],
                            s.childWindowName)
         IN IF s1.window = 0 THEN [s1 EXCEPT !.threw = TRUE]
            ELSE [s1 EXCEPT !.opened = TRUE]
    ELSE IF "open" \in s.memoized THEN s
    ELSE open([s EXCEPT !.memoized = @ \cup {"open"}], w)

\* watchForClose(): onCloseWindow checks the window at once
watchForClose(s, w) ==
    LET s1 == IF s.window = 0 THEN detectClose(s, w) ELSE [s EXCEPT !.watching = @ \cup {w}]
        s2 == cleanRegister(s1, "closeWindowListener", <<w, "">>)
    IN Then(s2, LAMBDA x : cleanRegister(x, "unloadWindowListener", <<w, "">>))

\* the loop of listen(win, domain) over the names of listeners(): on() throws
\* when the name has a listener for the window and the domain
RECURSIVE listenFrom(_, _, _)
listenFrom(s, w, i) ==
    IF i > Len(ListenerNames) \/ s.threw THEN s
    ELSE IF <<w, ListenerNames[i]>> \in s.listening THEN [s EXCEPT !.threw = TRUE]
    ELSE listenFrom(cleanRegister([s EXCEPT !.listening = @ \cup {<<w, ListenerNames[i]>>}],
                                  "listener", <<w, ListenerNames[i]>>), w, i + 1)

\* a listen() that does not test the window
listen_AnyWindow(s) == listenFrom(s, s.window, 1)

\* listen(this.window, domain)
listen(s) ==
    IF s.window = 0 THEN [s EXCEPT !.threw = TRUE] ELSE listenFrom(s, s.window, 1)

\* runTimeout()
runTimeout(s, w) ==
    IF ~s.timeoutProp THEN s
    ELSE cleanRegister([s EXCEPT !.timeout = w, !.timers = @ \cup {w}], "timeout", <<w, "">>)

\* destroyComponent(), the call of the delegate once delegate(win) has put the
\* override in its place
destroyComponent(s) ==
    LET s1 == cleanRun(s, "destroyCloseWindowListener")
        s2 == Then(s1, LAMBDA x : cleanRun(x, "destroyContainerEvents"))
    IN IF s.delegate # "none" THEN s
       ELSE Then(s2, LAMBDA x : cleanRun(x, "destroyWindow"))

\* a call of the instance starts with nothing thrown
Call(name) == [inst EXCEPT !.call = name, !.threw = FALSE]

\* new ParentComponent(component, context, options): registerActiveComponent
\* and the task that replaces onInit
NewInstance(timeout) ==
    /\ ~inst.exists
    /\ LET s1 == [Call("construct") EXCEPT !.exists = TRUE, !.timeoutProp = timeout,
                                           !.active = TRUE]
           s2 == cleanRegister(s1, "active", <<0, "">>)
       IN inst' = cleanRegister(s2, "onInit", <<0, "">>)

\* render(element), and renderTo(win, element) for another window, which
\* answers the request to delegate or not: tryInit starts the tasks and, the
\* element being ready, openContainer, open and watchForClose run
RenderOpen(w, to, found) ==
    /\ inst.exists
    /\ w = Len(inst.renders) + 1
    /\ w <= MaxRenders
    /\ found => to
    /\ LET s0 == IF to THEN renderToDelegate(Call("open"), w, found) ELSE Call("open")
           s1 == openContainerCall(s0, w)
           s2 == Then(s1, LAMBDA x : openCall(x, w))
           s3 == Then(s2, LAMBDA x : watchForClose(x, x.window))
       IN inst' = [tryInit(s3) EXCEPT
                      !.renders = Append(@, IF s3.threw THEN "failed" ELSE "opened")]

\* the domain is known: listen, loadUrl and runTimeout run
RenderListen(w) ==
    /\ w \in 1..Len(inst.renders)
    /\ inst.renders[w] = "opened"
    /\ LET s1 == listen(Call("listen"))
           s2 == Then(s1, LAMBDA x : runTimeout(x, w))
       IN inst' = [tryInit(s2) EXCEPT !.renders[w] = IF s2.threw THEN "failed" ELSE "done"]

\* the frame w posts INIT and the listener registered for it handles it
InitMessage(w) ==
    /\ <<w, "init">> \in inst.listening
    /\ w \in inst.frames
    /\ inst.inits < MaxFrameInits
    /\ LET s1 == resolveOnInit([Call("init") EXCEPT !.inits = @ + 1])
       IN inst' = [s1 EXCEPT !.timers = @ \ {s1.timeout}]

\* the timer of runTimeout fires
TimerFires(w) ==
    /\ w \in inst.timers
    /\ inst' = rejectOnInit([Call("timeout") EXCEPT !.timers = @ \ {w}])

\* destroy()
Destroy ==
    /\ inst.exists
    /\ inst' = destroyInstance(Call("destroy"))

\* closeComponent(), memoized; props.onClose is left to the model of close
CloseComponentCall ==
    /\ inst.exists
    /\ "closeComponent" \notin inst.memoized
    /\ LET s1 == cleanRun([Call("closeComponent") EXCEPT !.memoized = @ \cup {"closeComponent"}],
                          "destroyCloseWindowListener")
           s2 == cleanRun(s1, "destroyUnloadWindowListener")
       IN inst' = destroyComponent(s2)

(***************************************************************************)
(* Props sent to the child                                                 *)
(***************************************************************************)
\* number of updateProps() calls
MaxPropUpdates == 1

\* built-in prop definitions: onTimeout has a default, timeout and onError
\* have none
BuiltInProps ==
    [timeout |-> [sendToChild |-> "false", alias |-> "", def |-> FALSE],
     onTimeout |-> [sendToChild |-> "false", alias |-> "", def |-> TRUE],
     onError |-> [sendToChild |-> "true", alias |-> "", def |-> FALSE]]

\* the keys a caller passes: built-in props, the prop a of the component, its
\* alias s and a key x no definition has
GivenKeys == {"timeout", "onError", "a", "s", "x"}

\* sendToChild of a definition, "unset" when the definition leaves it out
SendToChildOptions == {"true", "false", "unset"}

\* xcomponent.create(options) with options.props = {a: {alias: 's', ...}}
WithProps(stc, def) ==
    [looseProps |-> FALSE,
     props |-> [k \in DOMAIN BuiltInProps \cup {"a"} |->
                    IF k = "a" THEN [sendToChild |-> stc, alias |-> "s", def |-> def]
                    ELSE BuiltInProps[k]]]

\* xcomponent.create(options) without options.props
LooseProps == [looseProps |-> TRUE, props |-> BuiltInProps]

NoSent ==
    [created |-> FALSE, component |-> LooseProps, constructed |-> FALSE, props |-> {},
     initialized |-> FALSE, pending |-> FALSE, updates |-> 0, visible |-> {}]

\* the first loop of validateProps: a given alias is moved to its prop
moveAliases(c, given) ==
    (given \ {c.props[k].alias : k \in DOMAIN c.props})
        \cup {k \in DOMAIN c.props : c.props[k].alias \in given}

\* validateProps throws "Invalid prop" for a key without a definition, unless
\* the component has looseProps
validatePropsThrows(c, given) ==
    ~c.looseProps /\ ~(moveAliases(c, given) \subseteq DOMAIN c.props)

\* normalizeProps: the keys given, and the keys of the definitions that are
\* not given and have a default
normalizeProps(c, props) == props \cup {k \in DOMAIN c.props : c.props[k].def}

\* setProps(props): this.props is extended by the normalized props
setProps(c, old, given) == old \cup normalizeProps(c, moveAliases(c, given))

\* a getPropsForChild() that returns every prop
getPropsForChild_All(c, props) == props

\* getPropsForChild(): the keys of this.props without those whose definition
\* has sendToChild false
getPropsForChild(c, props) ==
    {k \in props : ~(k \in DOMAIN c.props /\ c.props[k].sendToChild = "false")}

\* xcomponent.create(options)
CreateComponent(c) ==
    /\ ~sent.created
    /\ sent' = [sent EXCEPT !.created = TRUE, !.component = c]

\* new ParentComponent(component, context, {props}): setProps, then
\* buildChildWindowName packs getPropsForChild() into the name of the frame,
\* or stores it under the uid the name carries
ConstructWithProps(given) ==
    /\ sent.created
    /\ ~sent.constructed
    /\ ~validatePropsThrows(sent.component, given)
    /\ LET props == setProps(sent.component, {}, given)
       IN sent' = [sent EXCEPT !.constructed = TRUE, !.props = props,
                      !.visible = @ \cup {[via |-> "name",
                                           keys |-> getPropsForChild(sent.component, props)]}]

\* the INIT listener returns {props: getPropsForChild(), context}; onInit
\* resolves and the updateProps calls that waited for it go to the child
InitResponse ==
    /\ sent.constructed
    /\ ~sent.initialized
    /\ LET keys == getPropsForChild(sent.component, sent.props)
       IN sent' = [sent EXCEPT !.initialized = TRUE, !.pending = FALSE,
                      !.visible = @ \cup {[via |-> "init", keys |-> keys]}
                                    \cup (IF sent.pending
                                          THEN {[via |-> "updateProps", keys |-> keys]}
                                          ELSE {})]

\* updateProps(props): setProps(props, false), then onInit.then sends
\* getPropsForChild() to childExports.updateProps
UpdatePropsCall(given) ==
    /\ sent.constructed
    /\ sent.updates < MaxPropUpdates
    /\ ~validatePropsThrows(sent.component, given)
    /\ LET props == setProps(sent.component, sent.props, given)
       IN sent' = [sent EXCEPT !.props = props, !.updates = @ + 1,
                      !.pending = ~sent.initialized,
                      !.visible = IF sent.initialized
                                  THEN @ \cup {[via |-> "updateProps",
                                                keys |-> getPropsForChild(sent.component, props)]}
                                  ELSE @]

(***************************************************************************)
(* Controllers of a window                                                 *)
(***************************************************************************)
\* number of copies of the runtime loaded in the window, each with its table
\* of components
MaxLibs == 2
\* number of parent controllers constructed in the window
MaxControllers == 3

\* the tags of the components the page creates
Tags == {"a", "b"}

\* the tag in the name of the window: the window was opened for the component a
WindowTag == "a"

\* the window before any script has run
NoPage ==
    [components |-> [lib \in 1..MaxLibs |-> {}],
     activeXComponent |-> 0, xchild |-> 0, xprops |-> 0, children |-> 0,
     error |-> "",
     activeComponents |-> <<>>, constructed |-> 0]

\* a setWindows() that binds the controller whatever is bound
setWindows_Rebind(p, id, hasParent) ==
    IF ~hasParent THEN [p EXCEPT !.activeXComponent = id, !.error = "Can not find parent window"]
    ELSE [p EXCEPT !.activeXComponent = id]

\* setWindows() of the child controller id
setWindows(p, id, hasParent) ==
    IF p.activeXComponent # 0
    THEN [p EXCEPT !.error = "Can not attach multiple components to the same window"]
    ELSE IF ~hasParent THEN [p EXCEPT !.activeXComponent = id, !.error = "Can not find parent window"]
    ELSE [p EXCEPT !.activeXComponent = id]

\* new ChildComponent(component): setProps, which sets window.xprops, then
\* setWindows; registerChild assigns window.xchild when the constructor returns
registerChild(p, hasParent) ==
    LET id == p.children + 1
        p1 == setWindows([p EXCEPT !.children = id, !.xprops = id, !.error = ""], id, hasParent)
    IN IF p1.error # "" THEN p1 ELSE [p1 EXCEPT !.xchild = id, !.xprops = id]

\* xcomponent.create(options) in the copy lib of the runtime: the constructor
\* of Component throws for a tag the copy has, registers the tag, and calls
\* registerChild, which makes a child controller when the window was opened
\* for the tag
Create(lib, tag, hasParent) ==
    /\ tag \notin page.components[lib]
    /\ LET p1 == [page EXCEPT !.components[lib] = @ \cup {tag}, !.error = ""]
       IN page' = IF tag = WindowTag THEN registerChild(p1, hasParent) ELSE p1

\* new ParentComponent(component, context, options): registerActiveComponent
\* pushes the controller
registerActiveComponent(p, tag) ==
    [p EXCEPT !.constructed = @ + 1,
              !.activeComponents = Append(@, [tag |-> tag, id |-> p.constructed + 1])]

\* component.init(props, context, element)
ComponentInit(tag) ==
    /\ \E lib \in 1..MaxLibs : tag \in page.components[lib]
    /\ page.constructed < MaxControllers
    /\ page' = registerActiveComponent([page EXCEPT !.error = ""], tag)

\* component.render(props, element) and component.renderTo(win, props, element)
ComponentRender(tag) ==
    /\ \E lib \in 1..MaxLibs : tag \in page.components[lib]
    /\ page.constructed < MaxControllers
    /\ page' = registerActiveComponent([page EXCEPT !.error = "render"], tag)

\* destroy() of a controller: the task of registerActiveComponent takes it out
\* of activeComponents
DestroyController(i) ==
    /\ i \in 1..Len(page.activeComponents)
    /\ page' = [page EXCEPT !.error = "",
                    !.activeComponents = SubSeq(@, 1, i - 1) \o SubSeq(@, i + 1, Len(@))]

\* destroyAll()
DestroyAll ==
    /\ page.activeComponents # <<>>
    /\ page' = [page EXCEPT !.error = "", !.activeComponents = <<>>]

(***************************************************************************)
(* Method handles                                                          *)
(***************************************************************************)
\* number of messages with a function in their data the sender sends
MaxSends == 2
\* number of calls the peer makes of the stubs it holds
MaxCalls == 2

\* the values a stub is called with and a function returns
Values == {"0", "1", "null", "undefined", "NaN", "function"}

\* the functions the sender puts in its data
Functions == {"identity", "one", "throws"}

\* the origin of the peer
MethodPeerOrigin == OriginA

\* the domains the sender sends its data to
SendDomains == {WILDCARD, OriginA, OriginB}

\* before any message
NoRpc ==
    [sends |-> 0, sent |-> <<>>, methods |-> {}, deleted |-> {}, stubs |-> {}, calls |-> 0,
     call |-> [state |-> "none"]]

\* method.apply(context, args) for the functions of the model
applyMethod(f, a) ==
    CASE f = "identity" -> [kind |-> "resolved", value |-> a]
      [] f = "one" -> [kind |-> "resolved", value |-> "1"]
      [] f = "throws" -> [kind |-> "rejected", value |-> "error of f"]

\* JSON.parse(JSON.stringify([v]))[0] after serializeMethods and
\* deserializeMethods: an element of args
jsonElement(v) ==
    CASE v \in {"undefined", "NaN"} -> "null"
      [] v = "function" -> "stub"
      [] OTHER -> v

\* JSON.parse(JSON.stringify({result: v})).result after serializeMethods and
\* deserializeMethods: the result in the data of the response
jsonProperty(v) ==
    CASE v = "NaN" -> "null"
      [] v = "function" -> "stub"
      [] OTHER -> v

\* a serializeMethod that gives every method the id 1
serializeMethod_OneId(r, domain, fn) ==
    [r EXCEPT !.methods = {m \in @ : m.id # 1}
                          \cup {[id |-> 1, domain |-> domain, method |-> fn]}]

\* serializeMethod(destination, domain, method, name): methods[id] = {domain,
\* method} in the table of the destination
serializeMethod(r, domain, fn) ==
    [r EXCEPT !.methods = @ \cup {[id |-> r.sends, domain |-> domain, method |-> fn]}]

\* deserializeMethod(source, origin, obj): the wrapper keeps the id
deserializeMethod(r, id) == [r EXCEPT !.stubs = @ \cup {id}]

\* send(peer, name, data, {domain}) with a function in data: sendMessage
\* serializes it, postMessage delivers the message when the domain matches the
\* origin of the peer, and the peer deserializes it
SendMethod(f, domain) ==
    /\ rpc.sends < MaxSends
    /\ LET r1 == [rpc EXCEPT !.sends = @ + 1, !.sent = Append(@, f)]
           r2 == serializeMethod(r1, domain, f)
       IN rpc' = IF matchDomain(domain, MethodPeerOrigin)
                 THEN deserializeMethod(r2, r1.sends) ELSE r2

\* the wrapper called with a: send(source, METHOD, {id, name, args}, {domain:
\* origin, timeout: Infinity})
CallWrapper(id, a) ==
    /\ id \in rpc.stubs
    /\ rpc.call.state \in {"none", "settled"}
    /\ rpc.calls < MaxCalls
    /\ rpc' = [rpc EXCEPT !.calls = @ + 1,
                  !.call = [state |-> "request", id |-> id, given |-> a,
                            args |-> jsonElement(a)]]

\* the METHOD listener of the sender, and the response it makes
listenForMethods(r) ==
    LET found == {m \in r.methods : m.id = r.call.id}
        meth == CHOOSE m \in found : TRUE
    IN IF r.methods = {}
       THEN [kind |-> "rejected",
             value |-> "Could not find any methods this window has privileges to call"]
       ELSE IF found = {}
       THEN [kind |-> "rejected", value |-> "Could not find method with id"]
       ELSE IF ~matchDomain(meth.domain, MethodPeerOrigin)
       THEN [kind |-> "rejected", value |-> "Method domain does not match origin"]
       ELSE LET result == applyMethod(meth.method, r.call.args)
            IN IF result.kind = "resolved"
               THEN [result EXCEPT !.value = jsonProperty(@)] ELSE result

\* the sender receives the request and answers it
ReceiveMethodRequest ==
    /\ rpc.call.state = "request"
    /\ rpc' = [rpc EXCEPT !.call = [@ EXCEPT !.state = "response"] @@
                                   [response |-> listenForMethods(rpc),
                                    deleted |-> rpc.call.id \in rpc.deleted]]

\* the peer receives the response: the promise of the wrapper resolves with
\* data.result or rejects with the error
WrapperSettles ==
    /\ rpc.call.state = "response"
    /\ rpc' = [rpc EXCEPT !.call = [state |-> "settled", id |-> rpc.call.id,
                                    given |-> rpc.call.given,
                                    deleted |-> rpc.call.deleted,
                                    outcome |-> rpc.call.response]]

\* cleanUpWindow(peer) on the sender: methods.delete(win)
CleanUpMethods ==
    /\ rpc.methods # {}
    /\ rpc' = [rpc EXCEPT !.methods = {}, !.deleted = @ \cup {m.id : m \in rpc.methods}]

(***************************************************************************)
(* Responder: the window that receives frames and answers the requests     *)
(***************************************************************************)
\* the message ids the senders use
MaxFrameIds == 2
\* the frames delivered to the window
MaxDeliveries == 3

\* what the handler given to on() does with a message
HandlerKinds == {"returns", "throws", "promise"}

\* the parsed messages: message.id, message.type, message.fireAndForget
ResponderFrames ==
    [id : 1..MaxFrameIds, type : {"request", "ack", "response"}, fireAndForget : BOOLEAN]

NoResponder ==
    [listener |-> "none", receivedMessages |-> <<>>, dispatched |-> <<>>,
     handled |-> <<>>, posted |-> <<>>, pending |-> {}, sourceClosed |-> FALSE,
     delivered |-> <<>>]

\* the frame respond(data) builds for the message f
ReplyFrame(f, type, ack) == [type |-> type, of |-> f.id, ack |-> ack]

\* respond(data) of the REQUEST handler: sendMessage(source, data, origin)
\* unless the message is fireAndForget or the source is closed
requestRespond(r, f, frame) ==
    IF f.fireAndForget \/ r.sourceClosed THEN r
    ELSE [r EXCEPT !.posted = Append(@, frame)]

\* a handler whose throw is answered by nothing
tryHandler_Swallows(r, f) ==
    IF r.listener = "none"
    THEN requestRespond(r, f, ReplyFrame(f, "response", "error"))
    ELSE LET called == [r EXCEPT !.handled = Append(@, f.id)]
         IN CASE r.listener = "returns" ->
                    requestRespond(called, f, ReplyFrame(f, "response", "success"))
              [] r.listener = "throws" -> called
              [] OTHER -> [called EXCEPT !.pending = @ \cup {f}]

\* the second element of the ZalgoPromise.all: the handler is called and
\* its outcome is answered with a RESPONSE
tryHandler(r, f) ==
    IF r.listener = "none"
    THEN requestRespond(r, f, ReplyFrame(f, "response", "error"))
    ELSE LET called == [r EXCEPT !.handled = Append(@, f.id)]
         IN CASE r.listener = "returns" ->
                    requestRespond(called, f, ReplyFrame(f, "response", "success"))
              [] r.listener = "throws" ->
                    requestRespond(called, f, ReplyFrame(f, "response", "error"))
              [] OTHER -> [called EXCEPT !.pending = @ \cup {f}]

\* a REQUEST handler that calls the handler first and acknowledges after it
receiveRequest_AckLast(r, f) ==
    requestRespond(tryHandler(r, f), f, ReplyFrame(f, "ack", ""))

\* RECEIVE_MESSAGE_TYPES[REQUEST](source, origin, message)
receiveRequest(r, f) ==
    tryHandler(requestRespond(r, f, ReplyFrame(f, "ack", "")), f)

\* a window that remembers no message id
alreadyReceived_Never(r, f) == FALSE

\* -1 !== global.receivedMessages.indexOf(message.id)
alreadyReceived(r, f) ==
    \E i \in 1..Len(r.receivedMessages) : r.receivedMessages[i] = f.id

\* receiveMessage(event) in the responder. The window has made no request,
\* so the ACK and RESPONSE handlers find no response listener and throw.
responderReceive(r, f) ==
    IF alreadyReceived(r, f) THEN r
    ELSE LET pushed == [r EXCEPT !.receivedMessages = Append(@, f.id)]
             called == [pushed EXCEPT !.dispatched = Append(@, f.id)]
         IN IF r.sourceClosed THEN pushed
            ELSE IF f.type = "request" THEN receiveRequest(called, f)
            ELSE called

\* on(name, handler)
ResponderListen(kind) ==
    /\ responder.listener = "none"
    /\ responder' = [responder EXCEPT !.listener = kind]

\* a message event reaches the window
Deliver(f) ==
    /\ Len(responder.delivered) < MaxDeliveries
    /\ responder' = [responderReceive(responder, f) EXCEPT !.delivered = Append(@, f.id)]

\* the promise the handler returned settles
HandlerSettles(f, ack) ==
    /\ f \in responder.pending
    /\ responder' = requestRespond([responder EXCEPT !.pending = @ \ {f}], f,
                                   ReplyFrame(f, "response", ack))

\* the window the messages come from is closed
SourceCloses ==
    /\ ~responder.sourceClosed
    /\ responder' = [responder EXCEPT !.sourceClosed = TRUE]

(***************************************************************************)
(* Child window name: buildChildWindowName and getComponentMeta            *)
(***************************************************************************)
\* the longest component name and version given to create()
MaxStrLen == 3

\* strings are sequences of characters
XCOMPONENT == <<"x", "c", "o", "m", "p", "o", "n", "e", "n", "t">>
NameChars == {"a", "-", "_"}
Alnum == {"a", "0", "1"}

\* the versions given to create()
Versions == {<<"1">>, <<"1", ".", "0">>, <<"1", "_", "0">>, <<"1", ".", ".", "0", ".">>, <<".">>}

Strings(chars) == UNION {[1..n -> chars] : n \in 0..MaxStrLen}

\* the values uniqueID() can return
UniqueIds == {"0", "f"}

\* window.name of the window that renders the component
ParentWindowName == "n"

\* the windows a component is rendered to, and getDomain of each; the window
\* that constructs the instance is "self"
RenderTargets == {"self", "sameDomainWindow", "crossDomainWindow"}
DomainOf(win) == IF win = "crossDomainWindow" THEN "b" ELSE "a"

\* isSameDomain(win), called in the window that constructs the instance
isSameDomain(win) == DomainOf(win) = DomainOf("self")

\* the characters of JSON.stringify(options) and the letters hi-base32 writes
\* for them
JsonAlphabet == <<"0", "f", "t", "d", "n", "u", "r", "v", "i", "a", "b">>
Base32Upper == <<"A", "B", "C", "D", "E", "F", "G", "H", "I", "J", "K">>
Base32Lower == <<"a", "b", "c", "d", "e", "f", "g", "h", "i", "j", "k">>
IndexIn(seq, c) == IF \E i \in 1..Len(seq) : seq[i] = c
                   THEN CHOOSE i \in 1..Len(seq) : seq[i] = c ELSE 0
Base32Block == 8

RECURSIVE dropEdge(_)
dropEdge(str) ==
    IF str = <<>> \/ Head(str) \in Alnum THEN str ELSE dropEdge(Tail(str))

Reverse(str) == [i \in 1..Len(str) |-> str[Len(str) + 1 - i]]

RECURSIVE collapse(_)
collapse(str) ==
    IF str = <<>> THEN <<>>
    ELSE IF Head(str) \in Alnum THEN <<Head(str)>> \o collapse(Tail(str))
    ELSE <<"_">> \o collapse(dropEdge(str))

\* normalize(str): str.replace(/^[^a-z0-9A-Z]+|[^a-z0-9A-Z]+$/g, "")
\*                    .replace(/[^a-z0-9A-Z]+/g, "_")
normalize(str) == collapse(Reverse(dropEdge(Reverse(dropEdge(str)))))

\* JSON.stringify(options): the values of uid, tag, parent, renderParent,
\* props.type, props.value, id, domain in the order they were assigned
stringifyOptions(o) ==
    <<o.uid, o.tag, o.parent, o.renderParent, o.props.type>>
        \o (IF o.props.type = "r" THEN <<o.props.value>> ELSE <<>>)
        \o <<o.id, o.domain>>

\* JSON.parse of such a text
parseOptions(text) ==
    LET raw == Len(text) = 8
        n == Len(text)
    IN [uid |-> text[1], tag |-> text[2], parent |-> text[3], renderParent |-> text[4],
        props |-> IF raw THEN [type |-> text[5], value |-> text[6]]
                  ELSE [type |-> text[5], value |-> "undefined"],
        id |-> text[n - 1], domain |-> text[n]]

\* base32.encode(text): upper-case letters, padded with "=" to a full block
base32Encode(text) ==
    [i \in 1..Len(text) |-> Base32Upper[IndexIn(JsonAlphabet, text[i])]]
        \o [i \in 1..((Base32Block - (Len(text) % Base32Block)) % Base32Block) |-> "="]

\* base32.decode(str): the padding is dropped, a letter outside the alphabet
\* makes the text unreadable
base32Decodable(str) ==
    \A i \in 1..Len(str) : str[i] = "=" \/ IndexIn(Base32Upper, str[i]) # 0
base32Decode(str) ==
    LET body == SelectSeq(str, LAMBDA c : c # "=")
    IN [i \in 1..Len(body) |-> JsonAlphabet[IndexIn(Base32Upper, body[i])]]

toLowerCase(str) ==
    [i \in 1..Len(str) |-> IF IndexIn(Base32Upper, str[i]) # 0
                           THEN Base32Lower[IndexIn(Base32Upper, str[i])] ELSE str[i]]
toUpperCase(str) ==
    [i \in 1..Len(str) |-> IF IndexIn(Base32Lower, str[i]) # 0
                           THEN Base32Upper[IndexIn(Base32Lower, str[i])] ELSE str[i]]

\* [a, b, c, d].join("__")
join4(a, b, c, d) == a \o <<"_", "_">> \o b \o <<"_", "_">> \o c \o <<"_", "_">> \o d

\* str.split("__")
RECURSIVE splitFrom(_, _)
splitFrom(str, cur) ==
    IF str = <<>> THEN <<cur>>
    ELSE IF Len(str) >= 2 /\ str[1] = "_" /\ str[2] = "_"
    THEN <<cur>> \o splitFrom(SubSeq(str, 3, Len(str)), <<>>)
    ELSE splitFrom(Tail(str), Append(cur, Head(str)))
split(str) == splitFrom(str, <<>>)

Throws == <<"throws">>

\* a builder that keeps the id and the domain the options already carry
buildChildWindowName_KeepsId(name, version, given, id, win) ==
    LET opts == IF given.id = "" THEN [given EXCEPT !.id = id, !.domain = DomainOf(win)]
                ELSE given
    IN IF normalize(name) = <<>> \/ normalize(version) = <<>> THEN Throws
       ELSE join4(XCOMPONENT, normalize(name), normalize(version),
                  toLowerCase(SelectSeq(base32Encode(stringifyOptions(opts)),
                                        LAMBDA c : c # "=")))

\* buildChildWindowName(name, version, options) run in the window win, where
\* uniqueID() returns id
buildChildWindowName(name, version, given, id, win) ==
    LET opts == [given EXCEPT !.id = id, !.domain = DomainOf(win)]
        encodedName == normalize(name)
        encodedVersion == normalize(version)
        encodedOptions ==
            toLowerCase(SelectSeq(base32Encode(stringifyOptions(opts)), LAMBDA c : c # "="))
    IN IF encodedName = <<>> \/ encodedVersion = <<>> THEN Throws
       ELSE join4(XCOMPONENT, encodedName, encodedVersion, encodedOptions)

NoMeta == [found |-> FALSE]

\* version.replace(/_/g, ".")
dots(version) == [i \in 1..Len(version) |-> IF version[i] = "_" THEN "." ELSE version[i]]

\* getComponentMeta() in a window whose name is windowName
getComponentMeta(windowName) ==
    LET parts == split(windowName)
    IN IF windowName = <<>> THEN NoMeta
       ELSE IF parts[1] # XCOMPONENT THEN NoMeta
       ELSE IF Len(parts) < 4 \/ ~base32Decodable(toUpperCase(parts[4])) THEN NoMeta
       ELSE [found |-> TRUE, name |-> parts[2], version |-> dots(parts[3]),
             options |-> parseOptions(base32Decode(toUpperCase(parts[4])))]

NoOptionsGiven ==
    [uid |-> "", tag |-> "t", parent |-> "", renderParent |-> "",
     props |-> [type |-> "", value |-> ""], id |-> "", domain |-> ""]

NoCodec ==
    [stage |-> "none", name |-> <<>>, version |-> <<>>, renderTo |-> "",
     childDomain |-> "", props |-> [u \in UniqueIds |-> "undefined"],
     windowName |-> <<>>, meta |-> NoMeta, initialProps |-> "",
     again |-> <<>>, againId |-> "", againWindow |-> ""]

\* options that carry the props themselves whatever the window rendered to
childWindowOptions_AlwaysRaw(renderTo, uid) ==
    [NoOptionsGiven EXCEPT
        !.uid = uid,
        !.parent = IF renderTo = "self" THEN "d" ELSE ParentWindowName,
        !.renderParent = IF renderTo = "self" THEN "d" ELSE "u",
        !.props = [type |-> "r", value |-> "v"]]

\* ParentComponent.buildChildWindowName({renderTo}): the options it passes to
\* buildChildWindowName, where uniqueID() returns uid
childWindowOptions(renderTo, uid) ==
    LET sameWindow == renderTo = "self"
        sameDomain == isSameDomain(renderTo)
        secureProps == ~sameDomain
    IN [NoOptionsGiven EXCEPT
            !.uid = uid,
            !.parent = IF sameWindow THEN "d" ELSE ParentWindowName,
            !.renderParent = IF sameWindow THEN "d" ELSE "u",
            !.props = IF secureProps THEN [type |-> "i", value |-> "undefined"]
                      ELSE [type |-> "r", value |-> "v"]]

\* the constructor (renderTo is this window) or renderTo(win) builds the name
\* of the child window for a component whose url is in childDomain
BuildName(name, version, renderTo, childDomain, uid, id) ==
    LET childOptions == childWindowOptions(renderTo, uid)
        built == buildChildWindowName(name, version, childOptions, id, "self")
    IN /\ codec.stage = "none"
       /\ codec' = [codec EXCEPT
            !.stage = IF built = Throws THEN "failed" ELSE "built",
            !.name = name, !.version = version, !.renderTo = renderTo,
            !.childDomain = childDomain,
            !.props = IF childOptions.props.type = "i" THEN [@ EXCEPT ![uid] = "v"] ELSE @,
            !.windowName = built]

\* ChildComponent.getInitialProps() for the decoded name: the props found, or
\* the error thrown
getInitialProps(c, meta) ==
    IF meta.options.props.type = "r" THEN meta.options.props.value
    ELSE IF meta.options.props.type # "i" THEN "Unrecognized props type"
    ELSE IF c.childDomain # DomainOf("self") THEN "Parent component window is on a different domain"
    ELSE IF c.props[meta.options.uid] = "undefined" THEN "Initial props not found"
    ELSE c.props[meta.options.uid]

\* the child window loads: it decodes its name and reads its initial props
ChildDecodes ==
    /\ codec.stage = "built"
    /\ LET meta == getComponentMeta(codec.windowName)
       IN codec' = [codec EXCEPT
            !.stage = "decoded", !.meta = meta,
            !.initialProps = IF meta.found THEN getInitialProps(codec, meta) ELSE ""]

\* the decoded descriptor is given to buildChildWindowName again, in the
\* window win
BuildAgain(id, win) ==
    /\ codec.stage = "decoded"
    /\ codec.meta.found
    /\ codec' = [codec EXCEPT
            !.stage = "rebuilt",
            !.again = buildChildWindowName(codec.meta.name, codec.meta.version,
                                           codec.meta.options, id, win),
            !.againId = id, !.againWindow = win]

(***************************************************************************)
(* Render pipeline: the tasks of render(), the load timeout, the watchers  *)
(***************************************************************************)
\* the timeout prop, in ticks of the clock
RenderTimeout == 2
\* the clock stops here
MaxTicks == 4

\* before render(element) is called
NoPipe ==
    [stage |-> "none", timeoutProp |-> FALSE, openFails |-> FALSE, clock |-> 0,
     onRender |-> "none", element |-> "none", url |-> "none", open |-> "none",
     loaded |-> FALSE, listening |-> FALSE, childOpen |-> FALSE,
     closedAs |-> "none", closedBeforeInit |-> FALSE,
     frameWatcher |-> "none", windowWatcher |-> "none",
     timer |-> "none", deadline |-> 0,
     inits |-> 0, onInit |-> "pending", rejectedWith |-> "none", replaced |-> FALSE,
     cleaned |-> FALSE, renderPromise |-> "none", failedAfterInit |-> FALSE,
     onTimeoutCalls |-> 0, onCloseCalls |-> 0, onErrorCalls |-> 0]

stopped(watcher) == IF watcher = "active" THEN "cancelled" ELSE watcher

\* destroy(): clean.all() cancels the listeners, both watchers and the timer,
\* removes the frame and puts a new promise in this.onInit
pipeDestroy(p) ==
    IF p.cleaned THEN p
    ELSE [p EXCEPT !.cleaned = TRUE, !.listening = FALSE, !.childOpen = FALSE,
                   !.frameWatcher = stopped(@), !.windowWatcher = stopped(@),
                   !.timer = IF @ = "running" THEN "cleared" ELSE @,
                   !.replaced = TRUE]

\* error(err): destroy(), then props.onError(err), which runs once
pipeError(p) ==
    [pipeDestroy(p) EXCEPT !.onErrorCalls = IF @ = 0 THEN 1 ELSE @]

\* this.onInit.reject(err): the promise of the constructor has the catch
\* handler that calls error(err); the promise destroy() puts in has none
pipeRejectInit(p, why) ==
    IF p.replaced \/ p.onInit # "pending" THEN p
    ELSE pipeError([p EXCEPT !.onInit = "rejected", !.rejectedWith = why])

\* props.onClose(CLOSE_DETECTED): the prop is wrapped in once()
pipeOnClose(p) == [p EXCEPT !.onCloseCalls = IF @ = 0 THEN 1 ELSE @]

\* tasks.openContainer, tasks.open, tasks.watchForClose and tasks.listen, run
\* when the element is ready. driver.open starts the watcher of the frame
\* element, watchForClose the watcher of the window. Once the instance is
\* destroyed the frame is removed as soon as it is registered, and
\* onCloseWindow, which checks the window at once, calls back
tryOpen(p) ==
    IF p.element # "ready" \/ p.open # "none" THEN p
    ELSE IF p.openFails THEN [p EXCEPT !.open = "failed"]
    ELSE IF p.cleaned
    THEN pipeOnClose([p EXCEPT !.open = "late", !.windowWatcher = "fired"])
    ELSE [p EXCEPT !.open = "done", !.childOpen = TRUE, !.listening = TRUE,
                   !.frameWatcher = "active", !.windowWatcher = "active"]

\* tasks.loadUrl, which waits for tasks.buildUrl, tasks.listen and tasks.open,
\* and tasks.runTimeout, which waits for tasks.loadUrl
tryLoad(p) ==
    IF p.open = "done" /\ p.url = "resolved" /\ ~p.loaded /\ ~p.cleaned
    THEN [p EXCEPT !.loaded = TRUE,
                   !.timer = IF p.timeoutProp THEN "running" ELSE @,
                   !.deadline = IF p.timeoutProp THEN p.clock + RenderTimeout ELSE @]
    ELSE p

\* a task of render() is rejected
Failed(p) == p.onRender = "rejected" \/ p.url = "rejected" \/ p.open \in {"failed", "late"}

\* the catch of tryInit: ZalgoPromise.hash(tasks) is rejected by the first
\* task that is rejected
tryCatch(p) ==
    IF Failed(p) /\ p.renderPromise = "pending"
    THEN [pipeRejectInit(p, "task") EXCEPT !.renderPromise = "rejected",
                                          !.failedAfterInit = p.inits > 0]
    ELSE p

\* the then of tryInit and of render(): all tasks are resolved, onInit is
\* resolved, props.onEnter() is called
tryEnter(p) ==
    IF p.renderPromise = "pending" /\ p.onRender = "resolved" /\ p.loaded
       /\ p.onInit = "resolved"
    THEN [p EXCEPT !.renderPromise = "resolved"] ELSE p

\* what runs, in order, when a promise of the pipeline settles
settle(p) == tryEnter(tryCatch(tryLoad(tryOpen(p))))

\* new ParentComponent(...).render(element): props.onRender() is called, the
\* element is awaited, buildUrl() is called
StartRender(timeout, openFails, onRender, element, url) ==
    /\ pipe.stage = "none"
    /\ pipe' = settle([pipe EXCEPT !.stage = "rendering", !.timeoutProp = timeout,
                                   !.openFails = openFails, !.onRender = onRender,
                                   !.element = element, !.url = url,
                                   !.renderPromise = "pending"])

\* elementReady(element) resolves
ElementIsReady ==
    /\ pipe.element = "pending"
    /\ pipe' = settle([pipe EXCEPT !.element = "ready"])

\* the promise of buildUrl() settles
UrlSettles(outcome) ==
    /\ pipe.url = "pending"
    /\ pipe' = settle([pipe EXCEPT !.url = outcome])

\* the promise props.onRender() returned settles
OnRenderSettles(outcome) ==
    /\ pipe.onRender = "pending"
    /\ pipe' = settle([pipe EXCEPT !.onRender = outcome])

\* the INIT listener: onInit.resolve(this) and clearTimeout(this.timeout)
InitArrives ==
    /\ pipe.loaded /\ pipe.childOpen /\ pipe.listening
    /\ pipe.inits = 0
    /\ pipe' = settle([pipe EXCEPT !.inits = 1,
                                   !.onInit = IF @ = "pending" /\ ~pipe.replaced
                                              THEN "resolved" ELSE @,
                                   !.timer = IF @ = "running" THEN "cleared" ELSE @])

\* the callback of the timer of runTimeout: onInit.reject(error), then
\* props.onTimeout(error), which is memoized
TimeoutExpires ==
    /\ pipe.timer = "running"
    /\ pipe.clock >= pipe.deadline
    /\ pipe' = [pipeRejectInit([pipe EXCEPT !.timer = "fired"], "timeout")
                    EXCEPT !.onTimeoutCalls = IF @ = 0 THEN 1 ELSE @]

\* time passes; a timer that is due fires first
ClockTick ==
    /\ pipe.stage = "rendering"
    /\ pipe.clock < MaxTicks
    /\ ~(pipe.timer = "running" /\ pipe.clock >= pipe.deadline)
    /\ pipe' = [pipe EXCEPT !.clock = @ + 1]

\* the frame goes away: its element is removed from the container, or the
\* container is taken out of the document with the frame in it
FrameGoes(how) ==
    /\ pipe.childOpen
    /\ pipe' = [pipe EXCEPT !.childOpen = FALSE, !.closedAs = how,
                            !.closedBeforeInit = pipe.inits = 0]

\* detectClose of driver.open: the watcher of the frame element finds that
\* the element has no parent node
FrameWatcherFires ==
    /\ pipe.frameWatcher = "active"
    /\ pipe.closedAs = "removed"
    /\ pipe' = pipeDestroy(pipeOnClose([pipe EXCEPT !.frameWatcher = "fired"]))

\* the callback of onCloseWindow in watchForClose: the window is closed
WindowWatcherFires ==
    /\ pipe.windowWatcher = "active"
    /\ pipe.closedAs # "none"
    /\ pipe' = pipeDestroy(pipeOnClose(
                    pipeRejectInit([pipe EXCEPT !.windowWatcher = "fired"], "close")))

(***************************************************************************)
(* Child controller: the constructor, the INIT request, the parent watcher *)
(***************************************************************************)
MaxChildCalls == 2

CONTEXT_TYPES == {"iframe", "popup"}

POPUP == "popup"

NoChild == [stage |-> "none", renderedAs |-> "iframe", context |-> "undefined",
            props |-> "none", updates |-> 0, onInit |-> "none",
            parentClosed |-> FALSE, watcher |-> "none", firedWith |-> "none",
            windowClosed |-> FALSE, errorsSent |-> 0, closeSent |-> FALSE,
            resizes |-> 0, resizeSent |-> 0]

\* ChildComponent.destroy: the logger is flushed, then the window closes itself
childDestroy(c) == [c EXCEPT !.windowClosed = TRUE]

\* the callback of watchForClose: it logs, and destroys the child in the popup context only
parentWindowClosed_AnyContext(c) == childDestroy(c)

parentWindowClosed(c) ==
    IF c.context = POPUP THEN childDestroy(c) ELSE c

\* onCloseWindow's checkWindowClosed: once the window is seen closed the
\* interval is cancelled and the callback, wrapped in once(), is called
checkWindowClosed(c) ==
    IF c.watcher = "active" /\ c.parentClosed
    THEN parentWindowClosed([c EXCEPT !.watcher = "fired", !.firedWith = c.context])
    ELSE c

\* ChildComponent.watchForClose: onCloseWindow starts the interval and checks at once
childWatchForClose(c) == checkWindowClosed([c EXCEPT !.watcher = "active"])

\* ChildComponent.error: the error is sent to the parent
childError(c) == [c EXCEPT !.errorsSent = @ + 1]

\* new ChildComponent(component) in a window rendered with the given context
ChildConstruct(renderedAs, validParentDomain, tagMatches) ==
    /\ xchild.stage = "none"
    /\ LET c0 == [xchild EXCEPT !.renderedAs = renderedAs]
       IN  IF ~validParentDomain
           THEN xchild' = childError([c0 EXCEPT !.stage = "refused"])
           ELSE IF ~tagMatches
           THEN xchild' = [c0 EXCEPT !.stage = "threw", !.props = "initial"]
           ELSE xchild' = [childWatchForClose(c0) EXCEPT !.stage = "constructed",
                              !.props = "initial", !.onInit = "pending"]

\* the response of the parent to INIT: the child learns its context and takes the props
ChildInitResponse ==
    /\ xchild.onInit = "pending"
    /\ ~xchild.parentClosed
    /\ xchild' = [xchild EXCEPT !.onInit = "resolved", !.context = xchild.renderedAs,
                              !.props = "fromInit"]

\* the INIT request fails (no answer, an error answer or a closed window)
ChildInitFails ==
    /\ xchild.onInit = "pending"
    /\ xchild' = childError([xchild EXCEPT !.onInit = "rejected"])

\* the parent sends new props to the child
ChildPropsUpdate ==
    /\ xchild.onInit = "resolved"
    /\ ~xchild.parentClosed
    /\ ~xchild.windowClosed
    /\ xchild.updates < MaxChildCalls
    /\ xchild' = [xchild EXCEPT !.props = "updated", !.updates = @ + 1]

\* ChildComponent.resize: RESIZE is sent to the parent unless the context is popup
ChildResizes ==
    /\ xchild.stage = "constructed"
    /\ ~xchild.parentClosed
    /\ ~xchild.windowClosed
    /\ xchild.resizes < MaxChildCalls
    /\ xchild' = [xchild EXCEPT !.resizes = @ + 1,
                       !.resizeSent = IF xchild.context # POPUP THEN @ + 1 ELSE @]

\* ChildComponent.close: a fire-and-forget CLOSE is sent to the parent
ChildCallsClose ==
    /\ xchild.stage = "constructed"
    /\ ~xchild.closeSent
    /\ ~xchild.windowClosed
    /\ xchild' = [xchild EXCEPT !.closeSent = TRUE]

\* the parent window goes away (closed, navigated or removed)
ParentGoesAway ==
    /\ xchild.stage # "none"
    /\ ~xchild.parentClosed
    /\ xchild' = [xchild EXCEPT !.parentClosed = TRUE]

\* a tick of the 50 ms interval of onCloseWindow
ChildWatcherTick ==
    /\ xchild.watcher = "active"
    /\ xchild.parentClosed
    /\ xchild' = checkWindowClosed(xchild)

(***************************************************************************)
(* Ready handshake: onWindowReady, the READY handler, the timers           *)
(***************************************************************************)
MaxWaits == 2

MaxWaitClock == 2

\* the timeout argument of onWindowReady, in units of the clock
WaitTimeouts == {1, 2}

WaitWindows == {"w1", "w2"}

NoWaits == [clock |-> 0, readyPromises |-> [w \in WaitWindows |-> 0],
            promises |-> <<>>, calls |-> <<>>,
            readyAt |-> [w \in WaitWindows |-> -1],
            cleaned |-> [w \in WaitWindows |-> FALSE]]

\* promise.resolve / promise.reject of a ready promise: nothing once it is settled
settleReady(s, p, state) ==
    IF s.promises[p].state = "pending"
    THEN [s EXCEPT !.promises[p].state = state] ELSE s

\* new ZalgoPromise() stored in readyPromises for win
newReadyPromise(s, w, state, deadline, timer) ==
    LET p == Len(s.promises) + 1
    IN [s EXCEPT !.promises = Append(@, [win |-> w, state |-> state,
                                         deadline |-> deadline, timer |-> timer,
                                         creator |-> Len(s.calls)]),
                 !.readyPromises[w] = p]

\* the call recorded with the promise it returns
returned(s, w, timeout, found, p) ==
    [s EXCEPT !.calls = Append(@, [win |-> w, timeout |-> timeout, at |-> s.clock,
                                   found |-> found, promise |-> p])]

onWindowReady_OwnPromise(s, w, timeout) ==
    LET found == s.readyPromises[w]
        p == Len(s.promises) + 1
        called == returned(s, w, timeout, found, p)
    IN newReadyPromise(called, w, "pending", s.clock + timeout, TRUE)

\* onWindowReady(win, timeout): the promise stored for win if there is one,
\* else a new promise with a timer of its own
onWindowReady(s, w, timeout) ==
    LET found == s.readyPromises[w]
        p == Len(s.promises) + 1
    IN IF found # 0
       THEN returned(s, w, timeout, found, found)
       ELSE newReadyPromise(returned(s, w, timeout, found, p), w, "pending",
                            s.clock + timeout, TRUE)

\* the READY listener of initOnReady
readyListener(s, w) ==
    LET found == s.readyPromises[w]
    IN IF found # 0 THEN settleReady(s, found, "resolved")
       ELSE newReadyPromise(s, w, "resolved", 0, FALSE)

\* a consumer waits for window w
WaitForWindow(w, timeout) ==
    /\ Len(waits.calls) < MaxWaits
    /\ waits' = onWindowReady(waits, w, timeout)

\* the READY request of window w arrives
ReadyArrives(w) ==
    /\ waits.readyAt[w] = -1
    /\ waits' = [readyListener(waits, w) EXCEPT !.readyAt[w] = waits.clock]

\* the setTimeout callback of onWindowReady runs
WaitTimerFires(p) ==
    /\ waits.promises[p].timer
    /\ waits.promises[p].deadline <= waits.clock
    /\ waits' = [settleReady(waits, p, "rejected") EXCEPT !.promises[p].timer = FALSE]

\* time passes, no timer is late
WaitClockTick ==
    /\ waits.clock < MaxWaitClock
    /\ \A p \in 1..Len(waits.promises) :
            waits.promises[p].timer => waits.promises[p].deadline > waits.clock
    /\ waits' = [waits EXCEPT !.clock = @ + 1]

\* cleanUpWindow(win): readyPromises.delete(win)
WaitCleanUp(w) ==
    /\ ~waits.cleaned[w]
    /\ waits.readyPromises[w] # 0
    /\ waits' = [waits EXCEPT !.readyPromises[w] = 0, !.cleaned[w] = TRUE]

(***************************************************************************)
(* Prop values of a parent: setProps and updateProps by value              *)
(***************************************************************************)
MaxValueUpdates == 1

\* the definitions of the props: the built-in uid, onClose, onError and
\* timeout, and the props flag and text of the component
PropDefs ==
    [uid |-> [type |-> "string", def |-> "uniqueID", noop |-> FALSE],
     onClose |-> [type |-> "function", def |-> "", noop |-> TRUE],
     onError |-> [type |-> "function", def |-> "", noop |-> FALSE],
     timeout |-> [type |-> "number", def |-> "", noop |-> FALSE],
     flag |-> [type |-> "boolean", def |-> "", noop |-> FALSE],
     text |-> [type |-> "string", def |-> "", noop |-> FALSE]]

PropKeys == DOMAIN PropDefs

\* the value the caller gives for a key in its call number n
GivenValue(key, n) == <<"given", key, n>>

NoHeld == [constructed |-> FALSE, props |-> [k \in PropKeys |-> <<"undefined">>],
           before |-> [k \in PropKeys |-> <<"undefined">>], partial |-> {},
           calls |-> 0, updates |-> 0, uids |-> 0]

\* getDefault(component, prop, props): prop.def(), for uid a new uniqueID()
getDefault(prop, uids) ==
    IF prop.def = "uniqueID" THEN <<"uid", uids + 1>> ELSE <<"undefined">>

\* normalizeProp(component, instance, props, key, value) for a key the caller
\* gave (a defined, truthy value) or left out (undefined)
normalizeProp(key, partial, n, uids) ==
    LET prop == PropDefs[key]
        value == IF key \in partial THEN GivenValue(key, n) ELSE getDefault(prop, uids)
    IN IF prop.type = "boolean"
       THEN (IF value = <<"undefined">> THEN <<"false">> ELSE value)
       ELSE IF prop.type = "function"
       THEN (IF value # <<"undefined">> THEN value
             ELSE IF prop.noop THEN <<"noop">> ELSE value)
       ELSE value

\* normalizeProps(component, instance, props): the keys given, and every
\* other key of the definitions whose normalized value is not undefined
normalizedProps(partial, n, uids) ==
    [k \in PropKeys |-> normalizeProp(k, partial, n, uids)]

\* setProps(props, required): extend(this.props, normalizeProps(...))
setPropValues(h, partial) ==
    LET n == h.calls + 1
        result == normalizedProps(partial, n, h.uids)
        fresh == \E k \in PropKeys : result[k][1] = "uid"
    IN [h EXCEPT !.before = h.props, !.partial = partial, !.calls = n,
                 !.uids = IF fresh THEN @ + 1 ELSE @,
                 !.props = [k \in PropKeys |->
                                IF result[k] # <<"undefined">> THEN result[k]
                                ELSE h.props[k]]]

\* new ParentComponent(component, context, {props})
ConstructWithValues(given) ==
    /\ ~held.constructed
    /\ held' = [setPropValues(held, given) EXCEPT !.constructed = TRUE]

\* updateProps(props) on the parent instance
UpdateValues(partial) ==
    /\ held.constructed
    /\ held.updates < MaxValueUpdates
    /\ held' = [setPropValues(held, partial) EXCEPT !.updates = @ + 1]

(***************************************************************************)
(* Messages to a parent controller: listen and the dispatch of requests    *)
(***************************************************************************)
MaxGuardMessages == 3

\* the window the controller opened, and another window of the page
GuardWindows == {"childWindow", "otherWindow"}

\* a domain is a protocol and a host
HttpsChild == [protocol |-> "https:", host |-> "b.example"]
HttpsOther == [protocol |-> "https:", host |-> "evil.example"]
MockChild == [protocol |-> "mock:", host |-> "b.example"]
MockOther == [protocol |-> "mock:", host |-> "evil.example"]

\* the domains getDomain() resolves for the child
ChildDomains == {HttpsChild, MockChild}

\* the origins the browser reports, and the sourceDomain a frame may carry
EventOrigins == {HttpsChild, HttpsOther}
SourceDomains == {HttpsChild, HttpsOther, MockChild, MockOther}

AnyDomain == [protocol |-> "*", host |-> "*"]

NoEntry == [name |-> "", win |-> "", domain |-> AnyDomain, kind |-> "none"]

NoGuard == [stage |-> "none", domain |-> HttpsChild, table |-> {},
            onInit |-> "pending", closed |-> FALSE, hidden |-> FALSE,
            errors |-> 0, messages |-> 0,
            last |-> [name |-> "", source |-> "", eventOrigin |-> AnyDomain,
                      origin |-> AnyDomain, ran |-> "none"],
            resolvedBy |-> [source |-> "", origin |-> AnyDomain]]

\* receiveMessage: the origin handed to the handlers is the sourceDomain of
\* the frame when that is a mock: or file: domain, else event.origin
receivedOrigin(eventOrigin, sourceDomain) ==
    IF sourceDomain.protocol \in {"mock:", "file:"} THEN sourceDomain ELSE eventOrigin

requestListenerFor_AnyWindow(table, name, source, origin) ==
    LET named == {e \in table : e.name = name}
        exact == {e \in named : e.domain = origin}
        wild == {e \in named : e.domain = AnyDomain}
    IN IF exact # {} THEN CHOOSE e \in exact : TRUE
       ELSE IF wild # {} THEN CHOOSE e \in wild : TRUE
       ELSE NoEntry

\* getRequestListener({name, win: source, domain: origin}) over listeners
\* with literal domains: the listeners of the window, the origin before the
\* wildcard domain
requestListenerFor(table, name, source, origin) ==
    LET onWindow == {e \in table : e.name = name /\ e.win = source}
        exact == {e \in onWindow : e.domain = origin}
        wild == {e \in onWindow : e.domain = AnyDomain}
    IN IF exact # {} THEN CHOOSE e \in exact : TRUE
       ELSE IF wild # {} THEN CHOOSE e \in wild : TRUE
       ELSE NoEntry

\* listen(win, domain): for every name of listeners() a listener for the
\* window and the domain, and an error listener for the window and any domain
listenTable(w, domain) ==
    {[name |-> ListenerNames[i], win |-> w, domain |-> domain, kind |-> "listener"] :
        i \in 1..Len(ListenerNames)}
    \cup {[name |-> ListenerNames[i], win |-> w, domain |-> AnyDomain,
           kind |-> "errorListener"] : i \in 1..Len(ListenerNames)}

\* error(err) of the controller: onInit is rejected and destroy() cancels
\* the listeners
guardError(g) ==
    [g EXCEPT !.errors = @ + 1, !.stage = "destroyed", !.table = {},
              !.onInit = IF @ = "pending" THEN "rejected" ELSE @]

\* the handlers listeners() returns, called with (source, data)
guardHandler(g, name, source, origin) ==
    CASE name = "init" ->
            IF g.onInit = "pending"
            THEN [g EXCEPT !.onInit = "resolved",
                           !.resolvedBy = [source |-> source, origin |-> origin]]
            ELSE g
      [] name = "close" -> [g EXCEPT !.closed = TRUE, !.stage = "destroyed", !.table = {}]
      [] name = "hide" -> [g EXCEPT !.hidden = TRUE]
      [] name = "show" -> [g EXCEPT !.hidden = FALSE]
      [] name = "error" -> guardError(g)
      [] OTHER -> g

\* RECEIVE_MESSAGE_TYPES[REQUEST](source, origin, message)
dispatchRequest(g, name, source, eventOrigin, origin) ==
    LET found == requestListenerFor(g.table, name, source, origin)
        g1 == [g EXCEPT !.messages = @ + 1,
                        !.last = [name |-> name, source |-> source,
                                  eventOrigin |-> eventOrigin, origin |-> origin,
                                  ran |-> found.kind]]
    IN CASE found.kind = "listener" -> guardHandler(g1, name, source, origin)
         [] found.kind = "errorListener" -> guardError(g1)
         [] OTHER -> g1

\* the render task listen runs for the window opened and the domain resolved
GuardListen(domain) ==
    /\ guard.stage = "none"
    /\ guard' = [guard EXCEPT !.stage = "listening", !.domain = domain,
                              !.table = listenTable("childWindow", domain)]

\* a request frame arrives from some window
GuardReceive(name, source, eventOrigin, sourceDomain) ==
    /\ guard.stage # "none"
    /\ guard.messages < MaxGuardMessages
    /\ guard' = dispatchRequest(guard, name, source, eventOrigin,
                                receivedOrigin(eventOrigin, sourceDomain))

(***************************************************************************)
(* Method handles per window: the tables of serializeMethod and the calls  *)
(***************************************************************************)
MaxHandles == 2

MaxMethodRequests == 2

NoHandles == [methods |-> [w \in Windows |-> {}], issued |-> 0, requests |-> 0,
              last |-> [source |-> "", origin |-> "", id |-> 0, outcome |-> "none",
                        invoked |-> [id |-> 0, destination |-> "", domain |-> ""]]]

\* serializeMethod(destination, domain, method, name): methods[id] = {domain,
\* method} in the table stored for the destination
serializeFor(h, destination, domain) ==
    [h EXCEPT !.issued = @ + 1,
              !.methods[destination] = @ \cup {[id |-> h.issued + 1,
                                                destination |-> destination,
                                                domain |-> domain]}]

methodFor_AnyWindow(h, source, id) ==
    {m \in UNION {h.methods[w] : w \in Windows} : m.id = id}

\* global.methods.get(source)[data.id]
methodFor(h, source, id) == {m \in h.methods[source] : m.id = id}

\* the METHOD listener: the table of the source, the method of the id, the
\* domain of the method against the origin, then the call
methodListener(h, source, origin, id) ==
    LET found == methodFor(h, source, id)
        meth == CHOOSE m \in found : TRUE
        request == [source |-> source, origin |-> origin, id |-> id,
                    outcome |-> "none", invoked |-> NoHandles.last.invoked]
    IN IF h.methods[source] = {}
       THEN [request EXCEPT !.outcome = "no methods for this window"]
       ELSE IF found = {}
       THEN [request EXCEPT !.outcome = "no method with this id"]
       ELSE IF ~matchDomain(meth.domain, origin)
       THEN [request EXCEPT !.outcome = "domain does not match origin"]
       ELSE [request EXCEPT !.outcome = "invoked", !.invoked = meth]

\* a message with a function in its data is sent to a window
SendHandle(destination, domain) ==
    /\ handles.issued < MaxHandles
    /\ handles' = serializeFor(handles, destination, domain)

\* a METHOD request arrives from a window, with an origin and an id
MethodRequest(source, origin, id) ==
    /\ handles.requests < MaxMethodRequests
    /\ handles' = [handles EXCEPT !.requests = @ + 1,
                                  !.last = methodListener(handles, source, origin, id)]

\* cleanUpWindow(win): methods.delete(win)
DeleteHandles(w) ==
    /\ handles.methods[w] # {}
    /\ handles' = [handles EXCEPT !.methods[w] = {}]

(***************************************************************************)
(* Render delegation: the DELEGATE listener of a component                 *)
(***************************************************************************)
MaxDelegateRequests == 3

Envs == {"production", "sandbox"}

\* a url is kept as its first three "/"-separated parts and the rest
UrlA == [origin |-> OriginA, path |-> "/child"]

UrlB == [origin |-> OriginB, path |-> "/child"]

\* what the options give for `domain` and for `url`: nothing, one string, or
\* an object by environment
NoItem == [kind |-> "none"]

DomainItems == {NoItem, [kind |-> "string", value |-> OriginA],
                [kind |-> "object", production |-> OriginA, sandbox |-> OriginB]}

UrlItems == {NoItem, [kind |-> "string", value |-> UrlB],
             [kind |-> "object", production |-> UrlA, sandbox |-> UrlB]}

NoDelegation == [registered |-> FALSE, domain |-> NoItem, url |-> NoItem,
                 defaultEnv |-> "", delegates |-> {}, made |-> 0, requests |-> 0,
                 last |-> [origin |-> "", env |-> "", expected |-> "", ack |-> "none",
                           error |-> "", constructed |-> FALSE]]

\* url.split("/").slice(0, 3).join("/")
getDomainFromUrl(url) == url.origin

\* undefined, for a domain and for a url
NoDomain == ""

NoUrl == [origin |-> "", path |-> ""]

\* getForEnv(item, env); `undefined` is NoDomain or NoUrl, by what the item holds
getForEnv(d, item, env, undefined) ==
    LET e == IF env = "" THEN d.defaultEnv ELSE env
    IN IF item.kind = "none" THEN undefined
       ELSE IF item.kind = "string" THEN item.value
       ELSE IF e = "" THEN undefined
       ELSE item[e]

\* getDomain(null, {env}): no url is given, so getValidDomain gives nothing;
\* the domain for the environment, else the domain of the url for it
getDomainForEnv(d, env) ==
    LET domain == getForEnv(d, d.domain, env, NoDomain)
        envUrl == getForEnv(d, d.url, env, NoUrl)
    IN IF domain # NoDomain THEN domain
       ELSE IF envUrl # NoUrl THEN getDomainFromUrl(envUrl)
       ELSE NoDomain

originAllowed_Any(domain, origin) == TRUE

\* the test of the listener: `domain !== origin` throws
originAllowed(domain, origin) == domain = origin

\* the listener of DELEGATE_<name>, and the REQUEST handler of the bus around
\* it, which turns a throw into a response with ack "error"
delegateListener(d, source, origin, dataEnv, optionsOk, contextOk) ==
    LET env == IF dataEnv = "" THEN d.defaultEnv ELSE dataEnv
        domain == getDomainForEnv(d, env)
        request == [origin |-> origin, env |-> env, expected |-> domain,
                    ack |-> "error", error |-> "", constructed |-> FALSE]
        made == [id |-> d.made + 1, source |-> source, origin |-> origin]
        withDelegate == [d EXCEPT !.made = @ + 1, !.delegates = @ \cup {made}]
    IN IF domain = ""
       THEN [d EXCEPT !.last = [request EXCEPT !.error = "Could not determine domain to allow remote render"]]
       ELSE IF ~originAllowed(domain, origin)
       THEN [d EXCEPT !.last = [request EXCEPT !.error = "Can not render from origin"]]
       ELSE IF ~optionsOk
       THEN \* new DelegateComponent reads options.props.uid and throws
            \* before registerActiveComponent
            [d EXCEPT !.last = [request EXCEPT !.error = "TypeError"]]
       ELSE IF ~contextOk
       THEN \* getOverrides(data.context) throws, after the construction
            [withDelegate EXCEPT !.last = [request EXCEPT !.error = "TypeError",
                                                          !.constructed = TRUE]]
       ELSE [withDelegate EXCEPT !.last = [request EXCEPT !.ack = "success",
                                                          !.constructed = TRUE]]

\* new Component(options): addProp of defaultEnv, url, domain; listenDelegate
RegisterComponent(domain, url, defaultEnv) ==
    /\ ~delegation.registered
    /\ delegation' = [delegation EXCEPT !.registered = TRUE, !.domain = domain,
                                        !.url = url, !.defaultEnv = defaultEnv]

\* a DELEGATE request arrives; the listener is registered for any window and
\* any domain
DelegateRequest(source, origin, dataEnv, optionsOk, contextOk) ==
    /\ delegation.registered
    /\ delegation.requests < MaxDelegateRequests
    /\ delegation' = [delegateListener(delegation, source, origin, dataEnv,
                                       optionsOk, contextOk)
                        EXCEPT !.requests = @ + 1]

\* the destroy of the response, or the close watcher of the delegate:
\* clean.all() takes the delegate from the active components
DelegateDestroy(g) ==
    /\ g \in delegation.delegates
    /\ delegation' = [delegation EXCEPT !.delegates = @ \ {g}]

(***************************************************************************)
(* Creation of a parent controller: validate and validateParentDomain      *)
(***************************************************************************)
MaxCreations == 2

\* props.env of a render call; "" is no env, "local" is in no url object
PropEnvs == {"", "production", "local"}

\* allowedParentDomains of the components: the default, a string, a regex
AllowedParentDomains == {WILDCARD, OriginB, RegexA}

NoCreation == [origin |-> "", controllers |-> <<>>]

\* validate(component, options) throws
validateThrows(url, env) ==
    /\ env # ""
    /\ url.kind = "object"
    /\ env \notin Envs

parentDomainAllowed_Any(allowedParentDomains, domain) == TRUE

\* the test of validateParentDomain
parentDomainAllowed(allowedParentDomains, domain) ==
    matchDomain(allowedParentDomains, domain)

\* new ParentComponent(component, context, {props}): validate, then
\* validateParentDomain, then setProps and the rest of the constructor
newParentComponent(c, allowedParentDomains, url, env) ==
    LET controller == [allowedParentDomains |-> allowedParentDomains, url |-> url,
                       env |-> env, outcome |-> "constructed", props |-> FALSE,
                       active |-> FALSE, opened |-> FALSE, onClose |-> 0]
    IN IF validateThrows(url, env)
       THEN [controller EXCEPT !.outcome = "Error: Invalid env"]
       ELSE IF ~parentDomainAllowed(allowedParentDomains, c.origin)
       THEN [controller EXCEPT !.outcome = "RenderError"]
       ELSE [controller EXCEPT !.props = TRUE, !.active = TRUE]

\* the page is loaded from an origin
PageLoads(origin) ==
    /\ creation.origin = ""
    /\ creation' = [creation EXCEPT !.origin = origin]

\* component.render(props, element) reaches new ParentComponent for a
\* component with these settings
CreateParent(allowedParentDomains, url, env) ==
    /\ creation.origin # ""
    /\ Len(creation.controllers) < MaxCreations
    /\ creation' = [creation EXCEPT !.controllers =
            Append(@, newParentComponent(creation, allowedParentDomains, url, env))]

\* .render(element) of a constructed controller opens the child frame
CreatedOpens(i) ==
    /\ creation.controllers[i].outcome = "constructed"
    /\ creation.controllers[i].active
    /\ ~creation.controllers[i].opened
    /\ creation' = [creation EXCEPT !.controllers[i].opened = TRUE]

\* close() of a constructed controller: props.onClose is called, and the
\* controller leaves the active components
CreatedCloses(i) ==
    /\ creation.controllers[i].outcome = "constructed"
    /\ creation.controllers[i].active
    /\ creation' = [creation EXCEPT !.controllers[i].onClose = @ + 1,
                                    !.controllers[i].active = FALSE]

(***************************************************************************)
(* Errors of a parent instance: error(err), over the instance model        *)
(***************************************************************************)
MaxErrorObjects == 2

MaxErrorCalls == 3

NoErrs == [onError |-> "unknown", made |-> 0, calls |-> 0, handledErrors |-> {},
           ran |-> [e \in 1..MaxErrorObjects |-> 0],
           onErrorCalls |-> [e \in 1..MaxErrorObjects |-> 0],
           outcome |-> [e \in 1..MaxErrorObjects |-> "none"]]

\* -1 !== this.handledErrors.indexOf(err)
alreadyHandled(x, e) == e \in x.handledErrors

\* the first step of the chain of error(err): onInit.reject(err), whose catch
\* handler calls error(err) again and finds it handled, then destroy()
errorDestroys(s) ==
    destroyInstance(IF s.onInit = "pending" THEN [s EXCEPT !.onInit = "rejected"] ELSE s)

\* the rest of the chain: props.onError(err) when destroy() did not reject,
\* the catch that throws the error about the handling, the then that throws
\* err when there is no onError
errorSettles(x, e, destroyThrew, onErrorThrows) ==
    LET pushed == [x EXCEPT !.handledErrors = @ \cup {e}, !.ran[e] = @ + 1]
    IN IF destroyThrew
       THEN [pushed EXCEPT !.outcome[e] = "rejected with the error about the handling"]
       ELSE IF x.onError = "given"
       THEN [pushed EXCEPT !.onErrorCalls[e] = @ + 1,
                           !.outcome[e] = IF onErrorThrows
                                          THEN "rejected with the error about the handling"
                                          ELSE "resolved"]
       ELSE [pushed EXCEPT !.outcome[e] = "rejected with err"]

\* error(err) of the instance: by the ERROR listener and the listeners for
\* other domains with a new Error, by the error event of the frame, by the
\* wrappers of tryCatch or by a caller with an error it may have given before
ErrorCall(e, onError, onErrorThrows) ==
    /\ inst.exists
    /\ errs.calls < MaxErrorCalls
    /\ e <= errs.made + 1
    /\ errs.onError \in {"unknown", onError}
    /\ onErrorThrows => onError = "given"
    /\ LET x == [errs EXCEPT !.onError = onError, !.calls = @ + 1,
                             !.made = IF e > @ THEN e ELSE @]
           s == errorDestroys(Call("error"))
       IN IF alreadyHandled(errs, e)
          THEN /\ errs' = x
               /\ inst' = Call("error")
          ELSE /\ errs' = errorSettles(x, e, s.threw, onErrorThrows)
               /\ inst' = [s EXCEPT !.threw = FALSE]

(***************************************************************************)
(* Prop updates of a parent instance: updateProps and onInit               *)
(***************************************************************************)
MaxUpdateCalls == 2

\* the props a caller gives to init() and to updateProps()
UpdateGivens == {{}, {"a"}, {"timeout"}, {"onError", "x"}}

\* the components of the model: without props, and with the prop a sent to
\* the child or not
UpdateComponents == {LooseProps, WithProps("false", TRUE), WithProps("unset", FALSE)}

NoUpdating ==
    [constructed |-> FALSE, component |-> LooseProps, props |-> {},
     listening |-> FALSE, onInit |-> "pending", replaced |-> FALSE,
     childExports |-> FALSE, waiting |-> 0, updates |-> 0, calls |-> <<>>]

\* this.childExports.updateProps(this.getPropsForChild()), as the callback
\* of onInit.then runs it
callChildUpdateProps(u) ==
    [u EXCEPT !.calls = Append(@, [keys |-> getPropsForChild(u.component, u.props),
                                   props |-> u.props,
                                   onInit |-> u.onInit,
                                   childExports |-> u.childExports])]

RECURSIVE runWaiting(_)
\* the callbacks a promise holds run, in the order they were given, when it
\* resolves
runWaiting(u) ==
    IF u.waiting = 0 THEN u
    ELSE runWaiting(callChildUpdateProps([u EXCEPT !.waiting = @ - 1]))

\* a then that runs its callback whatever the state of the promise
onInitThen_Now(u) == callChildUpdateProps(u)

\* this.onInit.then(callback): run now when the promise is resolved, kept
\* when it is pending, dropped when it is rejected
onInitThen(u) ==
    CASE u.onInit = "resolved" -> callChildUpdateProps(u)
      [] u.onInit = "pending" -> [u EXCEPT !.waiting = @ + 1]
      [] OTHER -> u

\* destroy(): the listeners are cancelled and this.onInit is a new promise;
\* what waited for the old one waits for good
updatingDestroy(u) ==
    [u EXCEPT !.listening = FALSE, !.replaced = TRUE, !.onInit = "pending", !.waiting = 0]

\* new ParentComponent(component, context, {props})
UpdatingConstruct(c, given) ==
    /\ ~updating.constructed
    /\ ~validatePropsThrows(c, given)
    /\ updating' = [updating EXCEPT !.constructed = TRUE, !.component = c,
                                    !.props = setProps(c, {}, given)]

\* render(element): the frame is open and the instance listens
UpdatingRender ==
    /\ updating.constructed
    /\ ~updating.replaced
    /\ ~updating.listening
    /\ updating' = [updating EXCEPT !.listening = TRUE]

\* the INIT listener: childExports = data.exports, onInit.resolve(this)
UpdatingInit ==
    /\ updating.listening
    /\ LET u == [updating EXCEPT !.childExports = TRUE]
       IN updating' = IF u.onInit = "pending"
                      THEN runWaiting([u EXCEPT !.onInit = "resolved"])
                      ELSE u

\* the timer of runTimeout or an error of the render: onInit.reject(err),
\* whose catch handler runs error(err) and with it destroy()
UpdatingRejects ==
    /\ updating.listening
    /\ updating.onInit = "pending"
    /\ updating' = updatingDestroy([updating EXCEPT !.onInit = "rejected"])

\* destroy(), by close() or by the caller
UpdatingDestroy ==
    /\ updating.constructed
    /\ ~updating.replaced
    /\ updating' = updatingDestroy(updating)

\* updateProps(props)
UpdatePropsThen(given) ==
    /\ updating.constructed
    /\ updating.updates < MaxUpdateCalls
    /\ ~validatePropsThrows(updating.component, given)
    /\ updating' = onInitThen([updating EXCEPT
                        !.updates = @ + 1,
                        !.props = setProps(updating.component, updating.props, given)])

(***************************************************************************)
(* Specifications                                                          *)
(***************************************************************************)
\* the table after the runtime has loaded: initOnReady has installed the READY
\* listener for any window and any domain
InitListeners ==
    /\ requestListeners = [n \in Names |->
            IF n = READY
            THEN [has |-> TRUE, map |-> [NoMap EXCEPT ![WINDOW_WILDCARD] = 1]]
            ELSE [has |-> FALSE, map |-> NoMap]]
    /\ winObjs = [i \in ListenerIds |->
            IF i = 1 THEN [EmptyObj EXCEPT !.lit[WILDCARD] = 1] ELSE EmptyObj]
    /\ listeners = <<[name |-> READY, win |-> WINDOW_WILDCARD, domain |-> WILDCARD, obj |-> 1]>>
    /\ cancels = 0
    /\ lastOp = NoOp
    /\ tableBefore = TableOf(requestListeners, winObjs)

\* no request has been made; the opener has loaded, the frame has not
InitBus ==
    /\ now = 0
    /\ reqs = <<>>
    /\ responseListeners = {}
    /\ requestPromises = [w \in Peers |-> 0]
    /\ arrays = [i \in RequestIds |-> <<>>]
    /\ readyPromises = [w \in Peers |-> 0]
    /\ readyObjs = [p \in ReadyIds |-> NoReady]
    /\ loaded = [w \in Peers |-> ~isAncestor(Me, w)]
    /\ closed = [w \in Peers |-> FALSE]
    /\ toPeer = {}
    /\ toMe = <<>>
    /\ receivedMessages = {}
    /\ peerPending = {}
    /\ peer = NoPeer
    /\ options = NoOptions

\* no instance has been constructed
InitParent == parent = NoParent

\* no instance has been constructed
InitInst == inst = NoInst

\* no component has been created
InitSent == sent = NoSent

\* no script has run in the window
InitPage == page = NoPage

\* no message has been sent
InitRpc == rpc = NoRpc

\* no message has been received
InitResponder == responder = NoResponder

\* no child window name has been built
InitCodec == codec = NoCodec

\* render() has not been called
InitPipe == pipe = NoPipe

InitChild == xchild = NoChild

InitWaits == waits = NoWaits

InitHeld == held = NoHeld

InitGuard == guard = NoGuard

InitHandles == handles = NoHandles

InitDelegation == delegation = NoDelegation

InitCreation == creation = NoCreation

InitErrs == errs = NoErrs

InitUpdating == updating = NoUpdating

Init == InitListeners /\ InitBus /\ InitParent /\ InitInst /\ InitSent /\ InitPage /\ InitRpc /\ InitResponder
        /\ InitCodec /\ InitPipe /\ InitChild /\ InitWaits /\ InitHeld
        /\ InitGuard /\ InitHandles /\ InitDelegation /\ InitCreation
        /\ InitErrs /\ InitUpdating

On == \E n \in Names, w \in Windows \cup {WILDCARD}, d \in Domains :
        addRequestListener(n, w, d) /\ UNCHANGED exceptListeners

\* the cancel() of the READY listener is not kept by initOnReady
Cancel == \E id \in 2..Len(listeners) : CancelListener(id) /\ UNCHANGED exceptListeners

Request == \E n \in Names, w \in Windows, o \in Origins :
        ReceiveRequest(n, w, o) /\ UNCHANGED exceptListeners

NextListeners == On \/ Cancel \/ Request

SpecListeners == Init /\ [][NextListeners]_vars

DoSend == \E w \in Peers, d \in DomainOptions, t \in TimeoutOptions, ff \in BOOLEAN :
        /\ Len(reqs) < MaxRequests
        /\ Send(w, d, t, ff)
        /\ UNCHANGED exceptBus
DoReceiveReady == \E w \in Peers : ReceiveReady(w) /\ UNCHANGED exceptBus
DoReadyTimeout == \E p \in ReadyIds : ReadyTimeout(p) /\ UNCHANGED exceptBus
DoIntervalTick == \E r \in 1..Len(reqs) : IntervalTick(r) /\ UNCHANGED exceptBus
DoAdvanceTime == AdvanceTime /\ UNCHANGED exceptBus
DoReceiveMessage == ReceiveMessage /\ UNCHANGED exceptBus
DoPeerReceiveRequest ==
    \E r \in 1..Len(reqs), outcome \in {"nolistener", "success", "error", "async"} :
        PeerReceiveRequest(r, outcome) /\ UNCHANGED exceptBus
DoPeerRespond == \E r \in 1..Len(reqs), ack \in {"success", "error"} :
        PeerRespond(r, ack) /\ UNCHANGED exceptBus
DoPeerClose == \E w \in Peers : PeerClose(w) /\ UNCHANGED exceptBus
DoReceiveForged == \E r \in 1..Len(reqs), n \in 1..MaxForged :
        ReceiveForged("response", r, "success", n) /\ UNCHANGED exceptBus
DoCleanUpWindow == \E w \in Peers : CleanUpWindow(w) /\ UNCHANGED exceptBus

NextBus ==
    \/ DoSend
    \/ DoReceiveReady
    \/ DoReadyTimeout
    \/ DoIntervalTick
    \/ DoAdvanceTime
    \/ DoReceiveMessage
    \/ DoPeerReceiveRequest
    \/ DoPeerRespond
    \/ DoPeerClose
    \/ DoReceiveForged
    \/ DoCleanUpWindow

SpecBus == Init /\ [][NextBus]_vars

\* the same bus with one more request, the requests having no response timeout
DoSendPair == \E w \in Peers, d \in DomainOptions, ff \in BOOLEAN :
        /\ Len(reqs) < PairRequests
        /\ Send(w, d, Infinity, ff)
        /\ UNCHANGED exceptBus

NextBusPair ==
    \/ DoSendPair
    \/ DoReceiveReady
    \/ DoReadyTimeout
    \/ DoIntervalTick
    \/ DoAdvanceTime
    \/ DoReceiveMessage
    \/ DoPeerReceiveRequest
    \/ DoPeerRespond
    \/ DoPeerClose
    \/ DoReceiveForged
    \/ DoCleanUpWindow

SpecBusPair == Init /\ [][NextBusPair]_vars

DoConstruct == \E t \in BOOLEAN : Construct(t) /\ UNCHANGED exceptParent
DoRender == \E ok \in BOOLEAN : Render(ok) /\ UNCHANGED exceptParent
DoReceiveInit == ReceiveInit /\ UNCHANGED exceptParent
DoLoadTimeout == LoadTimeout /\ UNCHANGED exceptParent
DoChildCloses == ChildCloses /\ UNCHANGED exceptParent
DoDetectClose == DetectClose /\ UNCHANGED exceptParent
DoChildError == ChildError /\ UNCHANGED exceptParent
DoClose == Close /\ UNCHANGED exceptParent
DoCloseComponent == CloseComponent /\ UNCHANGED exceptParent
DoCloseContainer == CloseContainer /\ UNCHANGED exceptParent
DoUpdateProps == \E g \in BOOLEAN : UpdateProps(g) /\ UNCHANGED exceptParent

NextParent ==
    \/ DoConstruct
    \/ DoRender
    \/ DoReceiveInit
    \/ DoLoadTimeout
    \/ DoChildCloses
    \/ DoDetectClose
    \/ DoChildError
    \/ DoClose
    \/ DoCloseComponent
    \/ DoCloseContainer
    \/ DoUpdateProps

SpecParent == Init /\ [][NextParent]_vars

DoNewInstance == \E t \in BOOLEAN : NewInstance(t) /\ UNCHANGED exceptInst
DoRenderOpen == \E w \in 1..MaxRenders, to, found \in BOOLEAN :
        RenderOpen(w, to, found) /\ UNCHANGED exceptInst
DoRenderListen == \E w \in 1..MaxRenders : RenderListen(w) /\ UNCHANGED exceptInst
DoInitMessage == \E w \in 1..MaxRenders : InitMessage(w) /\ UNCHANGED exceptInst
DoTimerFires == \E w \in 1..MaxRenders : TimerFires(w) /\ UNCHANGED exceptInst
DoDestroy == Destroy /\ UNCHANGED exceptInst
DoCloseComponentCall == CloseComponentCall /\ UNCHANGED exceptInst

NextInstance ==
    \/ DoNewInstance
    \/ DoRenderOpen
    \/ DoRenderListen
    \/ DoInitMessage
    \/ DoTimerFires
    \/ DoDestroy
    \/ DoCloseComponentCall

SpecInstance == Init /\ [][NextInstance]_vars

DoCreateComponent ==
    \E c \in {LooseProps} \cup {WithProps(stc, def) : stc \in SendToChildOptions, def \in BOOLEAN} :
        CreateComponent(c) /\ UNCHANGED exceptSent
DoConstructWithProps == \E given \in SUBSET GivenKeys :
        ConstructWithProps(given) /\ UNCHANGED exceptSent
DoInitResponse == InitResponse /\ UNCHANGED exceptSent
DoUpdatePropsCall == \E given \in SUBSET GivenKeys :
        UpdatePropsCall(given) /\ UNCHANGED exceptSent

NextSent ==
    \/ DoCreateComponent
    \/ DoConstructWithProps
    \/ DoInitResponse
    \/ DoUpdatePropsCall

SpecSent == Init /\ [][NextSent]_vars

DoCreate == \E lib \in 1..MaxLibs, tag \in Tags, hasParent \in BOOLEAN :
        Create(lib, tag, hasParent) /\ UNCHANGED exceptPage
DoComponentInit == \E tag \in Tags : ComponentInit(tag) /\ UNCHANGED exceptPage
DoComponentRender == \E tag \in Tags : ComponentRender(tag) /\ UNCHANGED exceptPage
DoDestroyController == \E i \in 1..MaxControllers : DestroyController(i) /\ UNCHANGED exceptPage
DoDestroyAll == DestroyAll /\ UNCHANGED exceptPage

NextPage ==
    \/ DoCreate
    \/ DoComponentInit
    \/ DoComponentRender
    \/ DoDestroyController
    \/ DoDestroyAll

SpecPage == Init /\ [][NextPage]_vars

DoSendMethod == \E f \in Functions, domain \in SendDomains :
        SendMethod(f, domain) /\ UNCHANGED exceptRpc
DoCallWrapper == \E id \in 1..MaxSends, a \in Values :
        CallWrapper(id, a) /\ UNCHANGED exceptRpc
DoReceiveMethodRequest == ReceiveMethodRequest /\ UNCHANGED exceptRpc
DoWrapperSettles == WrapperSettles /\ UNCHANGED exceptRpc
DoCleanUpMethods == CleanUpMethods /\ UNCHANGED exceptRpc

NextRpc ==
    \/ DoSendMethod
    \/ DoCallWrapper
    \/ DoReceiveMethodRequest
    \/ DoWrapperSettles
    \/ DoCleanUpMethods

SpecRpc == Init /\ [][NextRpc]_vars

DoResponderListen == \E kind \in HandlerKinds :
        ResponderListen(kind) /\ UNCHANGED exceptResponder
DoDeliver == \E f \in ResponderFrames :
        Deliver(f) /\ UNCHANGED exceptResponder
DoHandlerSettles == \E f \in ResponderFrames, ack \in {"success", "error"} :
        HandlerSettles(f, ack) /\ UNCHANGED exceptResponder
DoSourceCloses == SourceCloses /\ UNCHANGED exceptResponder

NextResponder ==
    \/ DoResponderListen
    \/ DoDeliver
    \/ DoHandlerSettles
    \/ DoSourceCloses

SpecResponder == Init /\ [][NextResponder]_vars

DoBuildName == codec.stage = "none" /\ \E name \in Strings(NameChars), version \in Versions,
                  renderTo \in RenderTargets, childDomain \in {"a", "b"}, uid, id \in UniqueIds :
        BuildName(name, version, renderTo, childDomain, uid, id) /\ UNCHANGED exceptCodec
DoChildDecodes == ChildDecodes /\ UNCHANGED exceptCodec
DoBuildAgain == \E id \in UniqueIds, win \in {"self", "crossDomainWindow"} :
        BuildAgain(id, win) /\ UNCHANGED exceptCodec

NextCodec ==
    \/ DoBuildName
    \/ DoChildDecodes
    \/ DoBuildAgain

SpecCodec == Init /\ [][NextCodec]_vars

DoStartRender == pipe.stage = "none" /\ \E timeout, openFails \in BOOLEAN,
                    onRender \in {"resolved", "pending"}, element \in {"ready", "pending"},
                    url \in {"resolved", "pending"} :
        StartRender(timeout, openFails, onRender, element, url) /\ UNCHANGED exceptPipe
DoElementIsReady == ElementIsReady /\ UNCHANGED exceptPipe
DoUrlSettles == \E outcome \in {"resolved", "rejected"} :
        UrlSettles(outcome) /\ UNCHANGED exceptPipe
DoOnRenderSettles == \E outcome \in {"resolved", "rejected"} :
        OnRenderSettles(outcome) /\ UNCHANGED exceptPipe
DoInitArrives == InitArrives /\ UNCHANGED exceptPipe
DoTimeoutExpires == TimeoutExpires /\ UNCHANGED exceptPipe
DoClockTick == ClockTick /\ UNCHANGED exceptPipe
DoFrameGoes == \E how \in {"removed", "detached"} :
        FrameGoes(how) /\ UNCHANGED exceptPipe
DoFrameWatcherFires == FrameWatcherFires /\ UNCHANGED exceptPipe
DoWindowWatcherFires == WindowWatcherFires /\ UNCHANGED exceptPipe

NextPipe ==
    \/ DoStartRender
    \/ DoElementIsReady
    \/ DoUrlSettles
    \/ DoOnRenderSettles
    \/ DoInitArrives
    \/ DoTimeoutExpires
    \/ DoClockTick
    \/ DoFrameGoes
    \/ DoFrameWatcherFires
    \/ DoWindowWatcherFires

SpecPipe == Init /\ [][NextPipe]_vars

DoChildConstruct == xchild.stage = "none" /\ \E renderedAs \in CONTEXT_TYPES,
                    validParentDomain, tagMatches \in BOOLEAN :
        ChildConstruct(renderedAs, validParentDomain, tagMatches) /\ UNCHANGED exceptChild
DoChildInitResponse == ChildInitResponse /\ UNCHANGED exceptChild
DoChildInitFails == ChildInitFails /\ UNCHANGED exceptChild
DoChildPropsUpdate == ChildPropsUpdate /\ UNCHANGED exceptChild
DoChildResizes == ChildResizes /\ UNCHANGED exceptChild
DoChildCallsClose == ChildCallsClose /\ UNCHANGED exceptChild
DoParentGoesAway == ParentGoesAway /\ UNCHANGED exceptChild
DoChildWatcherTick == ChildWatcherTick /\ UNCHANGED exceptChild

NextChild ==
    \/ DoChildConstruct
    \/ DoChildInitResponse
    \/ DoChildInitFails
    \/ DoChildPropsUpdate
    \/ DoChildResizes
    \/ DoChildCallsClose
    \/ DoParentGoesAway
    \/ DoChildWatcherTick

SpecChild == Init /\ [][NextChild]_vars

DoWaitForWindow == Len(waits.calls) < MaxWaits /\ \E w \in WaitWindows, timeout \in WaitTimeouts :
        WaitForWindow(w, timeout) /\ UNCHANGED exceptWaits
DoReadyArrives == \E w \in WaitWindows : ReadyArrives(w) /\ UNCHANGED exceptWaits
DoWaitTimerFires == \E p \in 1..Len(waits.promises) :
        WaitTimerFires(p) /\ UNCHANGED exceptWaits
DoWaitClockTick == WaitClockTick /\ UNCHANGED exceptWaits
DoWaitCleanUp == \E w \in WaitWindows : WaitCleanUp(w) /\ UNCHANGED exceptWaits

NextWaits ==
    \/ DoWaitForWindow
    \/ DoReadyArrives
    \/ DoWaitTimerFires
    \/ DoWaitClockTick
    \/ DoWaitCleanUp

SpecWaits == Init /\ [][NextWaits]_vars

DoConstructWithValues == ~held.constructed /\ \E given \in SUBSET PropKeys :
        ConstructWithValues(given) /\ UNCHANGED exceptHeld
DoUpdateValues == held.constructed /\ held.updates < MaxValueUpdates
                  /\ \E partial \in SUBSET PropKeys :
        UpdateValues(partial) /\ UNCHANGED exceptHeld

NextHeld ==
    \/ DoConstructWithValues
    \/ DoUpdateValues

SpecHeld == Init /\ [][NextHeld]_vars

DoGuardListen == guard.stage = "none" /\ \E domain \in ChildDomains :
        GuardListen(domain) /\ UNCHANGED exceptGuard
DoGuardReceive == guard.stage # "none" /\ guard.messages < MaxGuardMessages
                  /\ \E i \in 1..Len(ListenerNames), source \in GuardWindows,
                        eventOrigin \in EventOrigins, sourceDomain \in SourceDomains :
        GuardReceive(ListenerNames[i], source, eventOrigin, sourceDomain)
            /\ UNCHANGED exceptGuard

NextGuard ==
    \/ DoGuardListen
    \/ DoGuardReceive

SpecGuard == Init /\ [][NextGuard]_vars

DoSendHandle == handles.issued < MaxHandles /\ \E destination \in Windows, domain \in Domains :
        SendHandle(destination, domain) /\ UNCHANGED exceptHandles
DoMethodRequest == handles.requests < MaxMethodRequests
                   /\ \E source \in Windows, origin \in Origins, id \in 1..MaxHandles :
        MethodRequest(source, origin, id) /\ UNCHANGED exceptHandles
DoDeleteHandles == \E w \in Windows : DeleteHandles(w) /\ UNCHANGED exceptHandles

NextHandles ==
    \/ DoSendHandle
    \/ DoMethodRequest
    \/ DoDeleteHandles

SpecHandles == Init /\ [][NextHandles]_vars

DoRegisterComponent == ~delegation.registered
                       /\ \E domain \in DomainItems, url \in UrlItems, defaultEnv \in Envs \cup {""} :
        RegisterComponent(domain, url, defaultEnv) /\ UNCHANGED exceptDelegation
DoDelegateRequest == delegation.registered /\ delegation.requests < MaxDelegateRequests
                     /\ \E source \in Windows, origin \in Origins, dataEnv \in Envs \cup {""},
                           optionsOk \in BOOLEAN, contextOk \in BOOLEAN :
        DelegateRequest(source, origin, dataEnv, optionsOk, contextOk) /\ UNCHANGED exceptDelegation
DoDelegateDestroy == \E g \in delegation.delegates : DelegateDestroy(g) /\ UNCHANGED exceptDelegation

NextDelegation ==
    \/ DoRegisterComponent
    \/ DoDelegateRequest
    \/ DoDelegateDestroy

SpecDelegation == Init /\ [][NextDelegation]_vars

DoPageLoads == creation.origin = "" /\ \E origin \in Origins : PageLoads(origin) /\ UNCHANGED exceptCreation
DoCreateParent == creation.origin # "" /\ Len(creation.controllers) < MaxCreations
                  /\ \E allowedParentDomains \in AllowedParentDomains, url \in UrlItems \ {NoItem}, env \in PropEnvs :
        CreateParent(allowedParentDomains, url, env) /\ UNCHANGED exceptCreation
DoCreatedOpens == \E i \in 1..Len(creation.controllers) : CreatedOpens(i) /\ UNCHANGED exceptCreation
DoCreatedCloses == \E i \in 1..Len(creation.controllers) : CreatedCloses(i) /\ UNCHANGED exceptCreation

NextCreation ==
    \/ DoPageLoads
    \/ DoCreateParent
    \/ DoCreatedOpens
    \/ DoCreatedCloses

SpecCreation == Init /\ [][NextCreation]_vars

DoErrorCall == inst.exists /\ errs.calls < MaxErrorCalls
               /\ \E e \in 1..MaxErrorObjects, onError \in {"given", "absent"}, onErrorThrows \in BOOLEAN :
        ErrorCall(e, onError, onErrorThrows)
        /\ UNCHANGED exceptInstErrs

NextErrors ==
    \/ NextInstance
    \/ DoErrorCall

SpecErrors == Init /\ [][NextErrors]_vars

DoUpdatingConstruct == ~updating.constructed /\ \E c \in UpdateComponents, given \in UpdateGivens :
        UpdatingConstruct(c, given) /\ UNCHANGED exceptUpdating
DoUpdatingRender == UpdatingRender /\ UNCHANGED exceptUpdating
DoUpdatingInit == UpdatingInit /\ UNCHANGED exceptUpdating
DoUpdatingRejects == UpdatingRejects /\ UNCHANGED exceptUpdating
DoUpdatingDestroy == UpdatingDestroy /\ UNCHANGED exceptUpdating
DoUpdatePropsThen == updating.updates < MaxUpdateCalls /\ \E given \in UpdateGivens :
        UpdatePropsThen(given) /\ UNCHANGED exceptUpdating

NextUpdating ==
    \/ DoUpdatingConstruct
    \/ DoUpdatingRender
    \/ DoUpdatingInit
    \/ DoUpdatingRejects
    \/ DoUpdatingDestroy
    \/ DoUpdatePropsThen

SpecUpdating == Init /\ [][NextUpdating]_vars

(***************************************************************************)
(* Listener table: properties                                              *)
(***************************************************************************)
\* listener registered in the table under (name, window key, literal domain key)
Reg(name, winKey, key) ==
    IF Table[name][winKey].present THEN Table[name][winKey].obj.lit[key] ELSE 0

\* some entry of the regex list of (name, window key) matches the origin
RegexHit(name, winKey, origin) ==
    /\ Table[name][winKey].present
    /\ \E i \in 1..Len(Table[name][winKey].obj.regex) :
          matchDomain(listeners[Table[name][winKey].obj.regex[i]].domain, origin)

\* nothing registered for the specific window matches the origin
NothingOnWindow(name, win, origin) ==
    /\ Reg(name, win, origin) = 0
    /\ Reg(name, win, WILDCARD) = 0
    /\ ~RegexHit(name, win, origin)

\* C9 (as stated): for a request (name, W, O) the precedence is (W, O), then
\* (wildcard window, O), then any listener with a wildcard domain; only the
\* most specific registered handler receives the message.
C9_ShadowingAsClaimed ==
    lastOp.op = "request" =>
        LET n == lastOp.name
            w == lastOp.win
            o == lastOp.domain
            h == lastOp.handler
        IN /\ Reg(n, w, o) # 0 => h = Reg(n, w, o)
           /\ (Reg(n, w, o) = 0 /\ Reg(n, WINDOW_WILDCARD, o) # 0)
                 => h = Reg(n, WINDOW_WILDCARD, o)

\* C9 (amended): the table is searched window first. A request (name, W, O)
\* goes to the (W, O) listener; failing that to the (W, wildcard domain)
\* listener; a wildcard-window listener receives it only when nothing
\* registered for W matches O, and then (wildcard window, O) comes before
\* (wildcard window, wildcard domain).
C9_ShadowingWindowFirst ==
    lastOp.op = "request" =>
        LET n == lastOp.name
            w == lastOp.win
            o == lastOp.domain
            h == lastOp.handler
        IN /\ Reg(n, w, o) # 0 => h = Reg(n, w, o)
           /\ (Reg(n, w, o) = 0 /\ Reg(n, w, WILDCARD) # 0) => h = Reg(n, w, WILDCARD)
           /\ (NothingOnWindow(n, w, o) /\ Reg(n, WINDOW_WILDCARD, o) # 0)
                 => h = Reg(n, WINDOW_WILDCARD, o)
           /\ (NothingOnWindow(n, w, o) /\ Reg(n, WINDOW_WILDCARD, o) = 0
                 /\ Reg(n, WINDOW_WILDCARD, WILDCARD) # 0)
                 => h = Reg(n, WINDOW_WILDCARD, WILDCARD)

\* a request for (W, O) was dispatched while a (W, wildcard domain) listener
\* and a (wildcard window, O) listener were both registered
C9_Witness ==
    /\ lastOp.op = "request"
    /\ Reg(lastOp.name, lastOp.win, WILDCARD) # 0
    /\ Reg(lastOp.name, WINDOW_WILDCARD, lastOp.domain) # 0
    /\ lastOp.handler = Reg(lastOp.name, lastOp.win, WILDCARD)

\* C10: a registration immediately followed by its cancel() leaves the
\* listener table (window entries, literal keys and regex lists) as it was
\* before the registration.
C10_RegisterCancelRestoresTable ==
    lastOp.op = "addCancel" => Table = tableBefore

\* C30 as stated: a registration fails only when a listener is already
\* registered under the identical (name, window, domain) key; a wildcard
\* listener of the same name does not make the registration of a specific
\* one fail.
C30_AddFailsOnlyOnIdenticalKey ==
    lastOp.op = "addThrows" =>
        Reg(lastOp.name, lastOp.win, lastOp.domain) # 0

(***************************************************************************)
(* Bus: properties                                                         *)
(***************************************************************************)
Hashes == 1..Len(reqs)

\* C1: a fireAndForget request never has an entry in the response table,
\* neither while it is being sent nor afterwards.
C1_FireAndForgetHasNoEntry ==
    \A r \in Hashes : reqs[r].fireAndForget => r \notin responseListeners

\* every frame received so far was posted by the peer
OnlyPeerFrames == \A id \in receivedMessages : id[3] = 0

\* C2: when only sends to W and frames received from W have gone before, a
\* step of cleanUpWindow(W) leaves no request that was sent to W pending,
\* whatever its timeout.
C2_CleanUpRejectsPending ==
    [][\A w \in Peers :
          (OnlyPeerFrames /\ requestPromises[w] # 0 /\ requestPromises'[w] = 0)
              => \A r \in Hashes : reqs[r].win = w => reqs'[r].state # "pending"]_vars

\* no ACK frame of request r is still on its way to this window
AckDrained(r) == \A i \in 1..Len(toMe) : ~(toMe[i].type = "ack" /\ toMe[i].hash = r)

\* the peer has handled the REQUEST of r, is still open, and what it has
\* posted for r has been received
Answered(r) == reqs[r].handled /\ ~isWindowClosed(reqs[r].win) /\ AckDrained(r)

\* C3 (as stated): every REQUEST a live peer has handled results in exactly
\* one ACK at the sender.
C3_ExactlyOneAck ==
    \A r \in Hashes : Answered(r) => reqs[r].acks = 1

\* C3 (amended): a REQUEST that is not fireAndForget and that a live peer has
\* handled results in exactly one ACK at the sender, whatever the handler
\* does; a fireAndForget REQUEST results in none; no request ever sees two.
C3_OneAckUnlessFireAndForget ==
    \A r \in Hashes :
        /\ reqs[r].acks <= 1
        /\ reqs[r].fireAndForget => reqs[r].acks = 0
        /\ (Answered(r) /\ ~reqs[r].fireAndForget) => reqs[r].acks = 1

\* a request has been handled by the peer, acknowledged once, and rejected by
\* the error response of the peer
C3_Witness ==
    \E r \in Hashes : /\ Answered(r)
                       /\ ~reqs[r].fireAndForget
                       /\ reqs[r].acks = 1
                       /\ reqs[r].ack
                       /\ reqs[r].state = "rejected"
                       /\ ~reqs[r].hasResult
                       /\ reqs[r].interval = "running"
                       /\ now = 0

\* C4: a request with a finite timeout T that is still pending was sent at
\* most T plus one polling period ago, whatever the kind of peer.
C4_SettlesWithinTimeout ==
    \A r \in Hashes :
        (reqs[r].state = "pending" /\ reqs[r].timeout # Infinity)
            => now - reqs[r].sentAt <= resTimeoutOf(reqs[r].timeout) + IntervalTime

\* the frame of the n-th third window, of an origin that does not match the
\* domain option of the requests, is received in this step
MismatchedReceipt(n) ==
    /\ ForgedId(n) \notin receivedMessages
    /\ ForgedId(n) \in receivedMessages'
    /\ ~matchDomain(options.domain, ForgerOrigin(n))

\* C8: the step that receives a RESPONSE frame of a non-matching origin
\* leaves the requests, their response entries and the lists of request
\* promises as they were.
C8_MismatchedResponseNotApplied ==
    [][\A n \in 1..MaxForged :
          MismatchedReceipt(n) => /\ reqs' = reqs
                                  /\ responseListeners' = responseListeners
                                  /\ arrays' = arrays]_vars

\* a RESPONSE of a non-matching origin has been received for the one request
\* made, which never waited: the request is pending with its entry in place
C8_Witness ==
    \E n \in 1..MaxForged :
        /\ ForgedId(n) \in receivedMessages
        /\ Len(reqs) = 1
        /\ ~matchDomain(reqs[1].domain, ForgerOrigin(n))
        /\ ~isAncestor(Me, reqs[1].win)
        /\ ~reqs[1].fireAndForget
        /\ 1 \in responseListeners
        /\ reqs[1].state = "pending"
        /\ ~reqs[1].hasResult

\* the runs of the interval after which the longest finite timeout of a
\* request has run out
CancelWithin == (RES_TIMEOUT \div TickDecrement) + 1

\* the request after n more runs of its interval, nothing else happening
RECURSIVE afterTicks(_, _)
afterTicks(rec, n) ==
    IF n = 0 \/ rec.interval # "running" THEN rec
    ELSE afterTicks(tick(rec), n - 1)

\* C40: the interval of a request whose promise has settled is cancelled
\* after a bounded number of its runs, whatever the timeout of the request:
\* CancelWithin more runs leave no settled request polling.
C40_SettledRequestStopsPolling ==
    \A r \in 1..Len(reqs) :
        (reqs[r].state # "pending" /\ reqs[r].interval = "running") =>
            afterTicks(reqs[r], CancelWithin).interval = "cancelled"

(***************************************************************************)
(* Parent controller: properties                                           *)
(***************************************************************************)
\* C5 (as stated): the onInit of the instance does not settle, by resolving or
\* by rejecting, before an INIT request has been received and answered.
C5_NeverSettlesBeforeInitAnswered ==
    parent.settled # "no" => parent.settledAfter = "answered"

\* C5 (amended): onInit resolves only in the handler of a received INIT
\* request, before the answer of the handler is posted; a promise in onInit
\* that is resolved has seen an INIT request.
C5_ResolvesOnlyOnInit ==
    /\ parent.settled = "resolved" => (parent.settledAfter = "received" /\ parent.inits > 0)
    /\ parent.onInit = "resolved" => parent.inits > 0

\* the INIT request of a rendered instance with a timeout has been handled
\* and answered: onInit is resolved and the timeout is cleared
C5_Witness ==
    /\ parent.stage = "rendered"
    /\ parent.timeoutProp
    /\ parent.onInit = "resolved"
    /\ parent.settled = "resolved"
    /\ parent.answered = 1
    /\ parent.timer = "cleared"

\* C6: an instance that has come to an end (destroy() has run its clean-up)
\* has had the caller's onClose invoked exactly once, whichever path ended it.
C6_OnCloseExactlyOnce ==
    parent.cleaned => parent.onCloseCalls = 1

\* C7: the caller's onClose callback has run at most once, whatever calls of
\* close(), closeComponent(), closeContainer() and updateProps() and whatever
\* detected closes there have been.
C7_OnCloseAtMostOnce ==
    parent.onCloseCalls <= 1

(***************************************************************************)
(* Parent instance: properties                                             *)
(***************************************************************************)
\* the ids of the tasks run by the step
RanByStep == SubSeq(inst'.ran, Len(inst.ran) + 1, Len(inst'.ran))

Ascending(seq) == \A i, j \in 1..Len(seq) : i < j => seq[i] < seq[j]

Descending(seq) == \A i, j \in 1..Len(seq) : i < j => seq[i] > seq[j]

\* the number of times the task id has run
RunCount(s, id) == Cardinality({i \in 1..Len(s.ran) : s.ran[i] = id})

\* the state of the instance in the state machine of the parent
instState(s) ==
    IF ~s.exists THEN "none"
    ELSE IF s.cleaned THEN "destroyed"
    ELSE IF s.onInit = "resolved" THEN "initialized"
    ELSE IF s.renders # <<>> THEN "rendering"
    ELSE "constructed"

\* C11: once destroy() has been called and has returned, the instance has no
\* window field, whether the frame was opened before the call or by a task of
\* render that ran after it
C11_NoWindowAfterDestroy == inst.destroys > 0 => inst.window = 0

\* the frame was opened by a render() after destroy(), and its task has run
C11_Witness ==
    /\ inst.destroys > 0
    /\ inst.lateOpen
    /\ inst.call = "open"
    /\ inst.window = 0
    /\ inst.iframe = 0
    /\ RunCount(inst, inst.registered - 2) = 1

\* C12: when a task throws during destroy(), every task that was registered and
\* had not run has run when that destroy() returns
C12_ThrowingTaskBlocksNoOther ==
    [][(inst'.call = "destroy" /\ inst'.threw) =>
        \A i \in 1..Len(inst.tasks) :
            ~inst.tasks[i].complete => RunCount(inst', inst.tasks[i].id) > 0]_vars

\* C13 as stated: destroy() runs the tasks in the order of their registration
C13_RegistrationOrder == [][inst'.call = "destroy" => Ascending(RanByStep)]_vars

\* C13: destroy() runs the tasks in the reverse of the order of their
\* registration, the task registered last first
C13_ReverseRegistrationOrder == [][inst'.call = "destroy" => Descending(RanByStep)]_vars

\* a destroy() has run three tasks or more
C13_Witness ==
    /\ inst.call = "destroy"
    /\ inst.registered >= 3
    /\ Len(inst.ran) = inst.registered
    /\ inst.ran[1] > inst.ran[2]

\* C14: after the first destroy() every registered task has run exactly once,
\* and a destroy() after it runs nothing and changes nothing
C14_SecondDestroyChangesNothing ==
    /\ [](inst.destroys > 0 => \A id \in 1..inst.registered : RunCount(inst, id) = 1)
    /\ [][(inst'.call = "destroy" /\ inst.destroys > 0) =>
            [inst' EXCEPT !.call = inst.call, !.destroys = inst.destroys,
                          !.threw = inst.threw] = inst]_vars

\* C15: a destroyed instance stays destroyed over every later call and message,
\* and its onInit does not resolve after the destroy()
C15_DestroyedIsTerminal ==
    [][instState(inst) = "destroyed" =>
        /\ instState(inst') = "destroyed"
        /\ inst'.resolves = inst.resolves
        /\ (inst'.onInit = "resolved" => inst.onInit = "resolved")]_vars

\* the instance was initialized and destroyed, and render() has been called
\* on it since
C15_Witness ==
    /\ instState(inst) = "destroyed"
    /\ inst.resolves = 1
    /\ inst.call \in {"open", "listen"}

\* C19: once a frame has been opened for the instance, no render() and no
\* renderTo() changes its childWindowName
C19_ChildWindowNameFixedOnceOpened ==
    [][inst.opened => inst'.childWindowName = inst.childWindowName]_vars

\* C32: once destroy() has run on a parent instance, no bus listener
\* registered by its listen() is left in the listener table, whatever the
\* order of destroy() and the render tasks open, listen and watchForClose.
C32_NoListenerAfterDestroy ==
    inst.destroys > 0 => inst.listening = {}

\* destroy() ran first, and listen, a render task that was pending, ran afterwards
C32_Witness ==
    /\ inst.destroys > 0
    /\ inst.cleaned
    /\ inst.call = "listen"
    /\ inst.opened
    /\ inst.listening = {}

(***************************************************************************)
(* Props sent to the child: properties                                     *)
(***************************************************************************)
\* the keys the child must not be given: the props whose definition has
\* sendToChild false, and their aliases
Withheld(c) ==
    LET props == {k \in DOMAIN c.props : c.props[k].sendToChild = "false"}
    IN props \cup ({c.props[k].alias : k \in props} \ {""})

\* C16: no prop whose definition has sendToChild false is among the props put
\* in the name of the frame, returned to INIT or passed to updateProps
C16_WithheldPropsNotSent ==
    \A v \in sent.visible : v.keys \cap Withheld(sent.component) = {}

\* the instance holds a prop of the component that is withheld, given by its
\* alias, and the child has been given props in the three ways
C16_Witness ==
    /\ ~sent.component.looseProps
    /\ sent.component.props["a"].sendToChild = "false"
    /\ "a" \in sent.props
    /\ "timeout" \in sent.props
    /\ {v.via : v \in sent.visible} = {"name", "init", "updateProps"}
    /\ \E v \in sent.visible : v.via = "updateProps" /\ "onError" \in v.keys

(***************************************************************************)
(* Controllers of a window: properties                                     *)
(***************************************************************************)
\* C17: no two parent controllers of one component are in activeComponents
C17_OneParentControllerPerComponent ==
    \A i, j \in 1..Len(page.activeComponents) :
        page.activeComponents[i].tag = page.activeComponents[j].tag => i = j

CalledFunction == rpc.sent[rpc.call.id]

\* C20 as stated: the promise of the stub settles with what the function does
\* with the args the peer gave
C20_StubSettlesWithResultOfMethod ==
    rpc.call.state = "settled" =>
        rpc.call.outcome = applyMethod(CalledFunction, rpc.call.given)

\* C20: unless cleanUpWindow has deleted the method, the promise of the
\* stub settles with what the function does with the args as they arrive, args
\* and result having passed through JSON, and rejects when the function throws
C20_StubSettlesWithResultOverJson ==
    (rpc.call.state = "settled" /\ ~rpc.call.deleted) =>
        LET result == applyMethod(CalledFunction, jsonElement(rpc.call.given))
        IN rpc.call.outcome = IF result.kind = "resolved"
                              THEN [result EXCEPT !.value = jsonProperty(@)]
                              ELSE result

\* the sender has sent two functions, and the stub of the second, called with
\* undefined, has resolved with null
C20_Witness ==
    /\ rpc.call.state = "settled"
    /\ ~rpc.call.deleted
    /\ rpc.sent = <<"one", "identity">>
    /\ rpc.call.id = 2
    /\ rpc.call.given = "undefined"
    /\ rpc.call.outcome = [kind |-> "resolved", value |-> "null"]

(***************************************************************************)
(* Responder: properties                                                   *)
(***************************************************************************)
\* C21: for every REQUEST, the responder sends the ACK before it sends the
\* RESPONSE: every RESPONSE frame posted follows the ACK frame of the same
\* request
C21_AckBeforeResponse ==
    \A j \in 1..Len(responder.posted) :
        responder.posted[j].type = "response" =>
            \E i \in 1..(j - 1) : /\ responder.posted[i].type = "ack"
                                  /\ responder.posted[i].of = responder.posted[j].of

\* a RESPONSE has been posted after the frames of another request
C21_Witness ==
    \E i, k, j \in 1..Len(responder.posted) :
        /\ i < k /\ k < j
        /\ responder.posted[i].type = "ack"
        /\ responder.posted[k].of # responder.posted[i].of
        /\ responder.posted[j].type = "response"
        /\ responder.posted[j].of = responder.posted[i].of

Occurrences(seq, x) == Cardinality({i \in 1..Len(seq) : seq[i] = x})

\* C22: a message id is processed at most once per window: no id is handed to
\* a message-type handler or to a listener twice, and the delivery of an id
\* already received changes nothing but the count of deliveries
C22_IdProcessedAtMostOnce ==
    /\ [](\A id \in 1..MaxFrameIds :
            /\ Occurrences(responder.dispatched, id) <= 1
            /\ Occurrences(responder.handled, id) <= 1)
    /\ [][(/\ Len(responder'.delivered) = Len(responder.delivered) + 1
           /\ \E i \in 1..Len(responder.receivedMessages) :
                responder.receivedMessages[i] =
                    responder'.delivered[Len(responder'.delivered)])
          => responder' = [responder EXCEPT !.delivered = responder'.delivered]]_vars

\* an id that was answered has been delivered again after another message
C22_Witness ==
    \E i, k, j \in 1..Len(responder.delivered) :
        /\ i < k /\ k < j
        /\ responder.delivered[i] = responder.delivered[j]
        /\ responder.delivered[k] # responder.delivered[i]
        /\ Occurrences(responder.handled, responder.delivered[i]) = 1
        /\ Occurrences(responder.handled, responder.delivered[k]) = 1

PostedFor(id, type, ack) ==
    \E i \in 1..Len(responder.posted) :
        responder.posted[i] = [type |-> type, of |-> id, ack |-> ack]

C24_TimeoutFiresAfterT ==
    (/\ pipe.stage = "rendering" /\ pipe.timeoutProp
     /\ pipe.inits = 0 /\ pipe.clock > RenderTimeout
     /\ ~Failed(pipe) /\ pipe.closedAs = "none")
    => (pipe.onTimeoutCalls = 1 /\ pipe.onInit = "rejected" /\ pipe.cleaned)

\* C25: a failure in any render task, at whatever point of the pipeline it
\* happens, rejects onInit and destroys the instance. Stated for an instance
\* that no timeout and no watcher has destroyed before.
C25_TaskFailureRejectsAndDestroys ==
    (/\ Failed(pipe)
     /\ pipe.timer # "fired"
     /\ pipe.frameWatcher # "fired" /\ pipe.windowWatcher # "fired")
    => (pipe.onInit = "rejected" /\ pipe.cleaned)

\* C29: when the frame goes away before the init message has arrived, the
\* close watcher triggers, onInit is rejected with the close-during-init
\* error and onClose is called with CLOSE_DETECTED. Stated for an instance
\* without a timeout and without a failed task, once no watcher is left.
C29_CloseDuringInitRejects ==
    (/\ pipe.closedBeforeInit
     /\ ~pipe.timeoutProp /\ ~Failed(pipe)
     /\ pipe.frameWatcher # "active" /\ pipe.windowWatcher # "active")
    => (/\ pipe.windowWatcher = "fired"
        /\ pipe.onInit = "rejected" /\ pipe.rejectedWith = "close"
        /\ pipe.onCloseCalls = 1)

\* the props descriptor the built name carries
PropsInName == getComponentMeta(codec.windowName).options.props

C27_ChildDestroysWhenParentGoes ==
    xchild.watcher = "fired" => xchild.windowClosed

\* C27: when the watcher of the parent window sees the parent gone, the
\* child destroys itself exactly when the context it has learned from the
\* INIT response is popup; that context is known only after init has
\* completed, and in the iframe context or before init the watcher fires
\* once and the window stays open.
C27_ChildDestroysOnlyAsKnownPopup ==
    /\ xchild.watcher = "fired" =>
            (xchild.windowClosed <=> xchild.firedWith = POPUP)
    /\ xchild.firedWith = POPUP =>
            xchild.onInit = "resolved" /\ xchild.renderedAs = POPUP
    /\ xchild.windowClosed => xchild.watcher = "fired"

C27_Witness ==
    /\ xchild.watcher = "fired"
    /\ xchild.windowClosed
    /\ xchild.firedWith = POPUP

(***************************************************************************)
(* Ready handshake: properties                                             *)
(***************************************************************************)
\* C28 as stated: every call of onWindowReady is governed by its own
\* deadline (the time of the call plus its timeout): its promise is not
\* rejected before that deadline, and unless a READY from the window has
\* arrived it does not stay pending past it.
C28_EachCallHasItsOwnDeadline ==
    \A i \in 1..Len(waits.calls) :
        LET c == waits.calls[i]
            p == waits.promises[c.promise]
        IN /\ p.state = "rejected" => waits.clock >= c.at + c.timeout
           /\ p.state = "pending" => waits.clock <= c.at + c.timeout

\* C28: the waits for a window share the promise stored for that window.
\* A call that finds a stored promise returns it as it is (pending,
\* resolved or already rejected) and its own timeout is not used; the
\* promise is governed by the deadline of the call that created it: it is
\* rejected no earlier than that deadline, resolved only by a READY of the
\* window that arrived no later than that deadline, and not pending past it.
C28_WaitsShareTheFirstDeadline ==
    \A i \in 1..Len(waits.calls) :
        LET c == waits.calls[i]
            p == waits.promises[c.promise]
            first == waits.calls[p.creator]
        IN /\ c.found # 0 => c.promise = c.found
           /\ p.win = c.win
           /\ p.deadline # 0 =>
                /\ p.creator \in 1..i
                /\ first.win = c.win
                /\ p.deadline = first.at + first.timeout
           /\ p.state = "rejected" => p.deadline <= waits.clock
           /\ p.state = "pending" => waits.clock <= p.deadline
           /\ p.state = "resolved" =>
                /\ waits.readyAt[c.win] # -1
                /\ p.deadline # 0 => waits.readyAt[c.win] <= p.deadline

C28_Witness ==
    \E i \in 1..Len(waits.calls) :
        LET c == waits.calls[i]
            p == waits.promises[c.promise]
        IN /\ c.found # 0
           /\ p.creator < i
           /\ p.state = "rejected"
           /\ waits.clock < c.at + c.timeout

(***************************************************************************)
(* Prop values of a parent: properties                                     *)
(***************************************************************************)
\* C31 as stated: after updateProps(partial) every prop that is not named
\* in partial has the value it had before the call.
C31_UpdateKeepsPropsNotNamed ==
    held.updates > 0 =>
        \A k \in PropKeys \ held.partial : held.props[k] = held.before[k]

(***************************************************************************)
(* Messages to a parent controller: properties                             *)
(***************************************************************************)
\* C33: a handler of the parent (init, close, resize, hide, show, error)
\* runs only for a message whose source is the child window and whose
\* origin, as receiveMessage hands it over, is the resolved child domain;
\* onInit is resolved only by such a message.
C33_HandlersRunOnlyForChildWindowAndDomain ==
    /\ guard.last.ran = "listener" =>
            /\ guard.last.source = "childWindow"
            /\ guard.last.origin = guard.domain
    /\ guard.onInit = "resolved" =>
            /\ guard.resolvedBy.source = "childWindow"
            /\ guard.resolvedBy.origin = guard.domain

\* an init message from the child window with another origin has been
\* dispatched: the error listener ran and onInit is not resolved
C33_Witness ==
    /\ guard.last.name = "init"
    /\ guard.last.source = "childWindow"
    /\ guard.last.origin # guard.domain
    /\ guard.last.ran = "errorListener"
    /\ guard.onInit = "rejected"

(***************************************************************************)
(* Method handles per window: properties                                   *)
(***************************************************************************)
\* C34: a METHOD request from window W with origin O invokes only a method
\* that was serialized for the destination W, under the id of the request,
\* and whose recorded domain matches O.
C34_OnlyOwnHandlesAreInvoked ==
    handles.last.outcome = "invoked" =>
        /\ handles.last.invoked.id = handles.last.id
        /\ handles.last.invoked.destination = handles.last.source
        /\ matchDomain(handles.last.invoked.domain, handles.last.origin)

\* a window asked for a method that exists for another window only, and the
\* request was refused
C34_Witness ==
    /\ handles.last.outcome = "no method with this id"
    /\ \E w \in Windows \ {handles.last.source} :
            \E m \in handles.methods[w] : m.id = handles.last.id

(***************************************************************************)
(* Render delegation: properties                                           *)
(***************************************************************************)
\* C35: a DELEGATE request is answered with success only when the origin of
\* the caller equals the domain the component is configured with for the
\* environment of the request; a request from another origin gets an error
\* response and constructs no delegate controller, and every delegate there
\* is was made for an origin the component is configured with.
C35_DelegateOnlyForConfiguredDomain ==
    /\ delegation.last.ack = "success" =>
            /\ delegation.last.origin = getDomainForEnv(delegation, delegation.last.env)
            /\ delegation.last.constructed
    /\ (delegation.last.ack # "none"
        /\ delegation.last.origin # getDomainForEnv(delegation, delegation.last.env)) =>
            /\ delegation.last.ack = "error"
            /\ ~delegation.last.constructed
    /\ \A g \in delegation.delegates :
            \E e \in Envs \cup {""} : g.origin = getDomainForEnv(delegation, e)

\* a request from a foreign origin was refused while a delegate made for an
\* earlier request exists
C35_Witness ==
    /\ delegation.last.ack = "error"
    /\ delegation.last.expected # ""
    /\ delegation.last.origin # delegation.last.expected
    /\ delegation.delegates # {}

(***************************************************************************)
(* Creation of a parent controller: properties                             *)
(***************************************************************************)
\* C36 as stated: a controller created on a page whose origin does not match
\* allowedParentDomains fails with a RenderError, opens no child context and
\* never has onClose called.
C36_MismatchGivesRenderError ==
    \A i \in 1..Len(creation.controllers) :
        LET c == creation.controllers[i]
        IN ~matchDomain(c.allowedParentDomains, creation.origin) =>
                /\ c.outcome = "RenderError"
                /\ ~c.opened
                /\ c.onClose = 0

\* C36: a controller created on a page whose origin does not match
\* allowedParentDomains fails in its constructor, with the RenderError unless
\* the options name an env the url object does not have (then with the
\* "Invalid env" error, which is tested first); it takes no props, is not
\* registered as active, opens no child context and never has onClose called.
C36_MismatchFailsBeforeOpening ==
    \A i \in 1..Len(creation.controllers) :
        LET c == creation.controllers[i]
        IN ~matchDomain(c.allowedParentDomains, creation.origin) =>
                /\ c.outcome = (IF validateThrows(c.url, c.env)
                                THEN "Error: Invalid env" ELSE "RenderError")
                /\ ~c.props /\ ~c.active
                /\ ~c.opened
                /\ c.onClose = 0

\* one controller failed with the RenderError on a page where another
\* component was rendered, opened and closed
C36_Witness ==
    \E i, j \in 1..Len(creation.controllers) :
        /\ creation.controllers[i].outcome = "RenderError"
        /\ ~matchDomain(creation.controllers[i].allowedParentDomains, creation.origin)
        /\ creation.controllers[j].opened
        /\ creation.controllers[j].onClose = 1

(***************************************************************************)
(* Errors of a parent instance: properties                                 *)
(***************************************************************************)
\* C38: the instance handles one error object at most once, however often
\* error(err) is called with it, and a handled error has gone to onError when
\* onError was given and has been thrown again, itself, when it was not.
C38_HandledOnceAndRouted ==
    \A e \in 1..errs.made :
        /\ errs.ran[e] <= 1
        /\ e \in errs.handledErrors =>
                IF errs.onError = "given"
                THEN errs.onErrorCalls[e] = 1
                ELSE errs.outcome[e] = "rejected with err"

(***************************************************************************)
(* Prop updates of a parent instance: properties                           *)
(***************************************************************************)
\* C39: the child's updateProps export is called only while onInit is
\* resolved and the exports of the child are stored, each time with
\* getPropsForChild() of the props the instance holds at that moment; an
\* updateProps() made while onInit is resolved leads to exactly one such call
\* at once, and the ones made while it was pending are all called when the
\* INIT message resolves it.
C39_ChildUpdateOnlyAfterInit ==
    /\ [](\A i \in 1..Len(updating.calls) :
            /\ updating.calls[i].onInit = "resolved"
            /\ updating.calls[i].childExports
            /\ updating.calls[i].keys =
                    getPropsForChild(updating.component, updating.calls[i].props))
    /\ [](updating.onInit # "pending" => updating.waiting = 0)
    /\ [][Len(updating'.calls) > Len(updating.calls) =>
            /\ updating'.onInit = "resolved"
            /\ updating'.calls[Len(updating'.calls)].props = updating'.props]_vars
    /\ [][(updating'.updates = updating.updates + 1 /\ updating.onInit = "resolved") =>
            Len(updating'.calls) = Len(updating.calls) + 1]_vars
    /\ [][(updating.onInit = "pending" /\ updating'.onInit = "resolved") =>
            Len(updating'.calls) = Len(updating.calls) + updating.waiting]_vars

\* two updateProps() calls waited for onInit and were both sent when the INIT
\* message arrived, with the child-visible subset of props that hold a prop
\* the child does not get
C39_Witness ==
    /\ Len(updating.calls) = 2
    /\ updating.updates = 2
    /\ updating.onInit = "resolved"
    /\ updating.waiting = 0
    /\ updating.calls[1].keys # updating.calls[1].props
    /\ "a" \in updating.props

====
